---- MODULE Spec2Model ----
(***************************************************************************)
(* LE Secure Connections pairing (ble_sm_sc) of the NimBLE host.           *)
(*                                                                         *)
(* Two devices, "I" (initiator) and "R" (responder), each hold one pairing *)
(* procedure for the connection between them.  Messages travel through one *)
(* FIFO channel per direction and may be altered in flight.  The crypto    *)
(* toolbox (f4, f5, f6, g2, ECDH) is modelled as collision-free term       *)
(* constructors, so that two values are equal exactly when they were built *)
(* from equal inputs.                                                      *)
(***************************************************************************)
EXTENDS Integers, Sequences, FiniteSets, TLC

----------------------------------------------------------------------------
(* Bounds of the model *)

\* each device draws its nonces from MaxNonce values
MaxNonce == 1
\* Ri bytes produced by the controller's random source are drawn from 0..MaxRi
MaxRi == 1
\* an unsolicited PublicKey message arrives no later than this PasskeyEntry
\* round (with the other methods: at any time)
MaxInjectRound == 1
\* runs of the key generator that fail
MaxKeygenFail == 1

(* Program constants *)
BLE_SM_SC_PASSKEY_BYTES == 4
BLE_SM_SC_PASSKEY_BITS == 20

Roles == {"I", "R"}
Peer(d) == IF d = "I" THEN "R" ELSE "I"

IoCaps == 0..4
\* 128-bit nonces of the two devices never coincide: odd values are drawn by
\* the initiator, even ones by the responder; 0 is "no nonce"
Nonces(d) == {2 * k - (IF d = "I" THEN 1 ELSE 0) : k \in 1..MaxNonce}
RiVals == 0..MaxRi
\* passkeys the users may type or the application may display (< 1000000)
Passkeys == {370085, 370087}
\* 16-byte OOB values the applications may inject (first byte shown)
OobVals == {7}

----------------------------------------------------------------------------
(* Passkey actions, pairing algorithms, procedure states *)

PKACT_NONE == "NONE"
PKACT_OOB == "OOB"
PKACT_INPUT == "INPUT"
PKACT_DISP == "DISP"
PKACT_NUMCMP == "NUMCMP"

ALG_JW == "JW"
ALG_PASSKEY == "PASSKEY"
ALG_OOB == "OOB"
ALG_NUMCMP == "NUMCMP"

STATE_NONE == "NONE"
STATE_PUBLIC_KEY == "PUBLIC_KEY"
STATE_CONFIRM == "CONFIRM"
STATE_RANDOM == "RANDOM"
STATE_DHKEY_CHECK == "DHKEY_CHECK"
STATE_ENC_START == "ENC_START"
STATE_LTK_START == "LTK_START"

F_INITIATOR == "INITIATOR"
F_AUTHENTICATED == "AUTHENTICATED"
F_IO_INJECTED == "IO_INJECTED"
F_ADVANCE_ON_IO == "ADVANCE_ON_IO"
F_SC == "SC"

AUTHREQ_MITM == "MITM"
AUTHREQ_SC == "SC"

\* status codes
OK == "OK"
RC_FAIL == "RC"
BLE_HS_ENOENT == "ENOENT"
US_ERR_CONFIRM_MISMATCH == "US_CONFIRM_MISMATCH"
US_ERR_DHKEY == "US_DHKEY"
US_ERR_NUMCMP == "US_NUMCMP"
SM_ERR_NONE == "NONE"
BLE_SM_ERR_UNSPECIFIED == "UNSPECIFIED"
BLE_SM_ERR_DHKEY == "DHKEY"
BLE_SM_ERR_NUMCMP == "NUMCMP"

----------------------------------------------------------------------------
(* The two 5x5 passkey-action tables, indexed [pair_rsp.io_cap][pair_req.io_cap] *)

ble_sm_sc_init_pka ==
  << << PKACT_NONE, PKACT_NONE,   PKACT_INPUT, PKACT_NONE, PKACT_INPUT >>,
     << PKACT_NONE, PKACT_NUMCMP, PKACT_INPUT, PKACT_NONE, PKACT_INPUT >>,
     << PKACT_DISP, PKACT_DISP,   PKACT_INPUT, PKACT_NONE, PKACT_DISP >>,
     << PKACT_NONE, PKACT_NONE,   PKACT_NONE,  PKACT_NONE, PKACT_NONE >>,
     << PKACT_DISP, PKACT_NUMCMP, PKACT_INPUT, PKACT_NONE, PKACT_NUMCMP >> >>

ble_sm_sc_resp_pka ==
  << << PKACT_NONE,  PKACT_NONE,   PKACT_DISP,  PKACT_NONE, PKACT_DISP >>,
     << PKACT_NONE,  PKACT_NUMCMP, PKACT_DISP,  PKACT_NONE, PKACT_NUMCMP >>,
     << PKACT_INPUT, PKACT_INPUT,  PKACT_INPUT, PKACT_NONE, PKACT_INPUT >>,
     << PKACT_NONE,  PKACT_NONE,   PKACT_NONE,  PKACT_NONE, PKACT_NONE >>,
     << PKACT_INPUT, PKACT_NUMCMP, PKACT_DISP,  PKACT_NONE, PKACT_NUMCMP >> >>

\* variant: the MITM test comes before the OOB test
PkaSelect_mitm_first(proc) ==
  IF AUTHREQ_MITM \notin proc.pair_req.authreq
     /\ AUTHREQ_MITM \notin proc.pair_rsp.authreq
    THEN PKACT_NONE
  ELSE IF proc.pair_req.oob_data_flag \/ proc.pair_rsp.oob_data_flag
    THEN PKACT_OOB
  ELSE IF F_INITIATOR \in proc.flags
    THEN ble_sm_sc_init_pka[proc.pair_rsp.io_cap + 1][proc.pair_req.io_cap + 1]
  ELSE ble_sm_sc_resp_pka[proc.pair_rsp.io_cap + 1][proc.pair_req.io_cap + 1]

\* variant: only the pairing response is tested for the MITM bit
PkaSelect_rsp_mitm(proc) ==
  IF proc.pair_req.oob_data_flag \/ proc.pair_rsp.oob_data_flag
    THEN PKACT_OOB
  ELSE IF AUTHREQ_MITM \notin proc.pair_rsp.authreq
          /\ AUTHREQ_MITM \in proc.pair_req.authreq
    THEN PKACT_NONE
  ELSE IF F_INITIATOR \in proc.flags
    THEN ble_sm_sc_init_pka[proc.pair_rsp.io_cap + 1][proc.pair_req.io_cap + 1]
  ELSE ble_sm_sc_resp_pka[proc.pair_rsp.io_cap + 1][proc.pair_req.io_cap + 1]

\* the action chosen by lines 767-779 (tables are 0-based in C)
PkaSelect(proc) ==
  IF proc.pair_req.oob_data_flag \/ proc.pair_rsp.oob_data_flag
    THEN PKACT_OOB
  ELSE IF AUTHREQ_MITM \notin proc.pair_req.authreq
          /\ AUTHREQ_MITM \notin proc.pair_rsp.authreq
    THEN PKACT_NONE
  ELSE IF F_INITIATOR \in proc.flags
    THEN ble_sm_sc_init_pka[proc.pair_rsp.io_cap + 1][proc.pair_req.io_cap + 1]
  ELSE ble_sm_sc_resp_pka[proc.pair_rsp.io_cap + 1][proc.pair_req.io_cap + 1]

\* the switch of lines 781-805: the algorithm and the flag for an action
PkaAlg(action) ==
  CASE action = PKACT_NONE -> ALG_JW
    [] action = PKACT_OOB -> ALG_OOB
    [] action \in {PKACT_INPUT, PKACT_DISP} -> ALG_PASSKEY
    [] action = PKACT_NUMCMP -> ALG_NUMCMP

\* variant: the authenticated flag is set for every action
ble_sm_sc_passkey_action_authalways(proc) ==
  LET action == PkaSelect(proc)
  IN [action |-> action,
      proc |-> [proc EXCEPT
                  !.pair_alg = PkaAlg(action),
                  !.flags = @ \cup {F_AUTHENTICATED}]]

\* variant: the authenticated flag is toggled (^=) instead of set (|=)
ble_sm_sc_passkey_action_toggle(proc) ==
  LET action == PkaSelect(proc)
  IN [action |-> action,
      proc |-> [proc EXCEPT
                  !.pair_alg = PkaAlg(action),
                  !.flags = IF action = PKACT_NONE THEN @
                            ELSE IF F_AUTHENTICATED \in @
                              THEN @ \ {F_AUTHENTICATED}
                              ELSE @ \cup {F_AUTHENTICATED}]]

\* ble_sm_sc_passkey_action: returns the action and the updated procedure
ble_sm_sc_passkey_action(proc) ==
  LET action == PkaSelect(proc)
  IN [action |-> action,
      proc |-> [proc EXCEPT
                  !.pair_alg = PkaAlg(action),
                  !.flags = IF action = PKACT_NONE
                              THEN @ ELSE @ \cup {F_AUTHENTICATED}]]

\* variant: the initiator is taken to send a confirm with every method
ble_sm_sc_initiator_txes_confirm_always(proc) ==
  proc.pair_alg \in {ALG_JW, ALG_NUMCMP, ALG_PASSKEY, ALG_OOB}

ble_sm_sc_initiator_txes_confirm(proc) ==
  proc.pair_alg # ALG_JW /\ proc.pair_alg # ALG_NUMCMP

\* variant: the responder is taken to check with every method
ble_sm_sc_responder_verifies_random_always(proc) ==
  proc.pair_alg \in {ALG_JW, ALG_NUMCMP, ALG_PASSKEY, ALG_OOB}

ble_sm_sc_responder_verifies_random(proc) ==
  proc.pair_alg # ALG_JW /\ proc.pair_alg # ALG_NUMCMP

----------------------------------------------------------------------------
(* Crypto toolbox and addresses: external collaborators *)

ble_sm_alg_f4(u, v, x, z) == << "f4", u, v, x, z >>
alg_f5_mackey(w, n1, n2, a1, a2) == << "mackey", w, n1, n2, a1, a2 >>
alg_f5_ltk(w, n1, n2, a1, a2) == << "ltk", w, n1, n2, a1, a2 >>
ble_sm_alg_f6(w, n1, n2, r, iocap, a1, a2) == << "f6", w, n1, n2, r, iocap, a1, a2 >>
ble_sm_alg_g2(u, v, x, y) == << "g2", u, v, x, y >>

\* the key pair the generator produces on a device; 0 is not a curve point
KeyOf(d) == IF d = "I" THEN 1 ELSE 2
ValidKeys == {1, 2}
\* ECDH: both sides obtain the same secret from (own private, peer public)
ble_sm_alg_gen_dhkey(peer_pub, priv) ==
  IF peer_pub < priv THEN << peer_pub, priv >> ELSE << priv, peer_pub >>

AddrOf(d) == IF d = "I" THEN "addrI" ELSE "addrR"

----------------------------------------------------------------------------
(* Procedures and results *)

Me(proc) == IF F_INITIATOR \in proc.flags THEN "I" ELSE "R"

NoKeys == [ltk_valid |-> FALSE, ltk |-> << >>]

NoCmd == [io_cap |-> 0, oob_data_flag |-> FALSE, authreq |-> {}]

\* a slot of the procedure list that holds no procedure
NoProc ==
  [present |-> FALSE, state |-> STATE_NONE, flags |-> {}, pair_alg |-> ALG_JW,
   pair_req |-> NoCmd, pair_rsp |-> NoCmd, pub_key_peer |-> 0, dhkey |-> << >>,
   randm |-> 0, rands |-> 0, confirm_peer |-> << >>, ri |-> 0,
   tk |-> << 0, 0, 0, 0 >>, passkey_bits_exchanged |-> 0,
   mackey |-> << >>, ltk |-> << >>, our_keys |-> NoKeys, peer_keys |-> NoKeys]

ZeroRes ==
  [app_status |-> OK, sm_err |-> SM_ERR_NONE, enc_cb |-> FALSE,
   execute |-> FALSE, pkact |-> PKACT_NONE, numcmp |-> << >>]

ErrRes(status, sm_err) ==
  [ZeroRes EXCEPT !.app_status = status, !.sm_err = sm_err, !.enc_cb = TRUE]

Msg(type, value) == [type |-> type, value |-> value, corrupt |-> FALSE]

ble_sm_our_pair_rand(proc) ==
  IF F_INITIATOR \in proc.flags THEN proc.randm ELSE proc.rands

ble_sm_their_pair_rand(proc) ==
  IF F_INITIATOR \in proc.flags THEN proc.rands ELSE proc.randm

SetOurRand(proc, v) ==
  IF F_INITIATOR \in proc.flags
    THEN [proc EXCEPT !.randm = v] ELSE [proc EXCEPT !.rands = v]

SetTheirRand(proc, v) ==
  IF F_INITIATOR \in proc.flags
    THEN [proc EXCEPT !.rands = v] ELSE [proc EXCEPT !.randm = v]

\* the state in which the application must answer a passkey action
ble_sm_pkact_state(action) ==
  CASE action = PKACT_NONE -> STATE_NONE
    [] action = PKACT_NUMCMP -> STATE_DHKEY_CHECK
    [] action \in {PKACT_OOB, PKACT_INPUT, PKACT_DISP} -> STATE_CONFIRM

ble_sm_proc_can_advance(proc) ==
  \/ ble_sm_pkact_state(ble_sm_sc_passkey_action(proc).action) # proc.state
  \/ F_IO_INJECTED \in proc.flags /\ F_ADVANCE_ON_IO \in proc.flags

----------------------------------------------------------------------------
(* Key Agreement Manager *)

NoKeyPair == [generated |-> FALSE, pub |-> 0, priv |-> 0, ngen |-> 0]

\* ble_sm_gen_pub_priv draws a random pair: the pair of the n-th run of the
\* generator on device d differs from the pair of every other run
GenKey(d, n) == KeyOf(d) + 2 * n

\* variant: ble_sm_sc_keys_generated is not set after the generator succeeded
ble_sm_sc_ensure_keys_generated_noflag(keys, d, f) ==
  IF ~keys.generated
    THEN IF f = "keygen"
           THEN [rc |-> RC_FAIL, keys |-> [keys EXCEPT !.ngen = @ + 1]]
           ELSE [rc |-> OK,
                 keys |-> [generated |-> FALSE, pub |-> GenKey(d, keys.ngen),
                           priv |-> GenKey(d, keys.ngen),
                           ngen |-> keys.ngen + 1]]
    ELSE [rc |-> OK, keys |-> keys]

\* variant: ble_sm_sc_keys_generated is not tested before the generator runs
ble_sm_sc_ensure_keys_generated_always(keys, d, f) ==
  IF f = "keygen"
    THEN [rc |-> RC_FAIL, keys |-> [keys EXCEPT !.ngen = @ + 1]]
    ELSE [rc |-> OK,
          keys |-> [generated |-> TRUE, pub |-> GenKey(d, keys.ngen),
                    priv |-> GenKey(d, keys.ngen), ngen |-> keys.ngen + 1]]

\* ble_sm_sc_ensure_keys_generated on device d; f = "keygen" makes the
\* generator fail
ble_sm_sc_ensure_keys_generated(keys, d, f) ==
  IF ~keys.generated
    THEN IF f = "keygen"
           THEN [rc |-> RC_FAIL, keys |-> [keys EXCEPT !.ngen = @ + 1]]
           ELSE [rc |-> OK,
                 keys |-> [generated |-> TRUE, pub |-> GenKey(d, keys.ngen),
                           priv |-> GenKey(d, keys.ngen),
                           ngen |-> keys.ngen + 1]]
    ELSE [rc |-> OK, keys |-> keys]

----------------------------------------------------------------------------
(* Confirm *)

Bit(byte, n) == (byte \div (2 ^ n)) % 2

\* variant: the bits of a byte are taken from the most significant one down
ble_sm_sc_gen_ri_msb(proc, f, rnd) ==
  CASE proc.pair_alg \in {ALG_JW, ALG_NUMCMP} ->
         [rc |-> OK, proc |-> [proc EXCEPT !.ri = 0]]
    [] proc.pair_alg = ALG_PASSKEY ->
         LET byte == proc.passkey_bits_exchanged \div 8
             bit == 7 - (proc.passkey_bits_exchanged % 8)
         IN [rc |-> OK,
             proc |-> [proc EXCEPT
                         !.ri = 128 + Bit(proc.tk[byte + 1], bit),
                         !.passkey_bits_exchanged = @ + 1]]
    [] proc.pair_alg = ALG_OOB ->
         IF f = "rand"
           THEN [rc |-> RC_FAIL, proc |-> proc]
           ELSE [rc |-> OK, proc |-> [proc EXCEPT !.ri = rnd]]

ble_sm_sc_gen_ri(proc, f, rnd) ==
  CASE proc.pair_alg \in {ALG_JW, ALG_NUMCMP} ->
         [rc |-> OK, proc |-> [proc EXCEPT !.ri = 0]]
    [] proc.pair_alg = ALG_PASSKEY ->
         LET byte == proc.passkey_bits_exchanged \div 8
             bit == proc.passkey_bits_exchanged % 8
         IN [rc |-> OK,
             proc |-> [proc EXCEPT
                         !.ri = 128 + Bit(proc.tk[byte + 1], bit),
                         !.passkey_bits_exchanged = @ + 1]]
    [] proc.pair_alg = ALG_OOB ->
         IF f = "rand"
           THEN [rc |-> RC_FAIL, proc |-> proc]
           ELSE [rc |-> OK, proc |-> [proc EXCEPT !.ri = rnd]]

\* rng_rc is what the random source returned to the step (OK when the step
\* does not call it)
ble_sm_sc_confirm_go(proc, keys, f, rnd) ==
  LET g == ble_sm_sc_gen_ri(proc, f, rnd)
      p == g.proc
  IN IF g.rc # OK
       THEN [proc |-> p, res |-> ErrRes(g.rc, BLE_SM_ERR_UNSPECIFIED),
             out |-> << >>, rng_rc |-> g.rc]
     ELSE IF f \in {"f4", "tx"}
       THEN [proc |-> p, res |-> ErrRes(RC_FAIL, BLE_SM_ERR_UNSPECIFIED),
             out |-> << >>, rng_rc |-> OK]
     ELSE [proc |-> IF F_INITIATOR \notin p.flags
                      THEN [p EXCEPT !.state = STATE_RANDOM] ELSE p,
           res |-> ZeroRes, rng_rc |-> OK,
           out |-> << Msg("PairingConfirm",
                          ble_sm_alg_f4(keys.pub, p.pub_key_peer,
                                        ble_sm_our_pair_rand(p), p.ri)) >>]

----------------------------------------------------------------------------
(* Random *)

\* variant: each side passes its own public key first
ble_sm_sc_gen_numcmp_ownfirst(proc, keys, res, f) ==
  IF f = "g2"
    THEN [res EXCEPT !.app_status = RC_FAIL,
                     !.sm_err = BLE_SM_ERR_UNSPECIFIED, !.enc_cb = TRUE]
    ELSE [res EXCEPT !.app_status = OK,
                     !.numcmp = ble_sm_alg_g2(keys.pub, proc.pub_key_peer,
                                              proc.randm, proc.rands)]

\* fills in the numeric-comparison value of a result; f = "g2" makes g2 fail
ble_sm_sc_gen_numcmp(proc, keys, res, f) ==
  LET pka == IF F_INITIATOR \in proc.flags THEN keys.pub ELSE proc.pub_key_peer
      pkb == IF F_INITIATOR \in proc.flags THEN proc.pub_key_peer ELSE keys.pub
  IN IF f = "g2"
       THEN [res EXCEPT !.app_status = RC_FAIL,
                        !.sm_err = BLE_SM_ERR_UNSPECIFIED, !.enc_cb = TRUE]
       ELSE [res EXCEPT !.app_status = OK,
                        !.numcmp = ble_sm_alg_g2(pka, pkb, proc.randm, proc.rands)]

\* variant: the bit count is compared with > instead of >=
ble_sm_sc_random_advance_gt(proc, f, rnd) ==
  IF proc.pair_alg # ALG_PASSKEY
     \/ proc.passkey_bits_exchanged > BLE_SM_SC_PASSKEY_BITS
    THEN [rc |-> OK, proc |-> [proc EXCEPT !.state = STATE_DHKEY_CHECK]]
    ELSE LET p == [proc EXCEPT !.state = STATE_CONFIRM]
         IN IF f = "rand"
              THEN [rc |-> RC_FAIL, proc |-> p]
              ELSE [rc |-> OK, proc |-> SetOurRand(p, rnd)]

\* variant: the two conditions are joined by && instead of ||
ble_sm_sc_random_advance_and(proc, f, rnd) ==
  IF proc.pair_alg # ALG_PASSKEY
     /\ proc.passkey_bits_exchanged >= BLE_SM_SC_PASSKEY_BITS
    THEN [rc |-> OK, proc |-> [proc EXCEPT !.state = STATE_DHKEY_CHECK]]
    ELSE LET p == [proc EXCEPT !.state = STATE_CONFIRM]
         IN IF f = "rand"
              THEN [rc |-> RC_FAIL, proc |-> p]
              ELSE [rc |-> OK, proc |-> SetOurRand(p, rnd)]

\* f = "rand" makes the random source fail
ble_sm_sc_random_advance(proc, f, rnd) ==
  IF proc.pair_alg # ALG_PASSKEY
     \/ proc.passkey_bits_exchanged >= BLE_SM_SC_PASSKEY_BITS
    THEN [rc |-> OK, proc |-> [proc EXCEPT !.state = STATE_DHKEY_CHECK]]
    ELSE LET p == [proc EXCEPT !.state = STATE_CONFIRM]
         IN IF f = "rand"
              THEN [rc |-> RC_FAIL, proc |-> p]
              ELSE [rc |-> OK, proc |-> SetOurRand(p, rnd)]

\* variant: the action's state is compared with Confirm, as in
\* ble_sm_sc_public_key_go, instead of the procedure's state
NumcmpDue_confirm(proc, keys, res, f) ==
  LET pk == ble_sm_sc_passkey_action(proc)
  IN IF ble_sm_pkact_state(pk.action) = STATE_CONFIRM
        /\ F_IO_INJECTED \notin pk.proc.flags
       THEN [due |-> TRUE, proc |-> pk.proc,
             res |-> ble_sm_sc_gen_numcmp(pk.proc, keys,
                                          [res EXCEPT !.pkact = pk.action], f)]
       ELSE [due |-> FALSE, proc |-> pk.proc, res |-> res]

\* lines 1003-1010 and 1085-1091: surface the numeric comparison if it is due
NumcmpDue(proc, keys, res, f) ==
  LET pk == ble_sm_sc_passkey_action(proc)
  IN IF ble_sm_pkact_state(pk.action) = pk.proc.state
        /\ F_IO_INJECTED \notin pk.proc.flags
       THEN [due |-> TRUE, proc |-> pk.proc,
             res |-> ble_sm_sc_gen_numcmp(pk.proc, keys,
                                          [res EXCEPT !.pkact = pk.action], f)]
       ELSE [due |-> FALSE, proc |-> pk.proc, res |-> res]

\* variant: the responder's Result asks for the next state's step at once
ble_sm_sc_random_go_rsp_exec(proc, keys, f, rnd) ==
  IF f = "tx"
    THEN [proc |-> proc, res |-> ErrRes(RC_FAIL, BLE_SM_ERR_UNSPECIFIED),
          out |-> << >>, rng_rc |-> OK]
  ELSE LET out == << Msg("PairingRandom", ble_sm_our_pair_rand(proc)) >>
       IN IF F_INITIATOR \in proc.flags
            THEN [proc |-> proc, res |-> ZeroRes, out |-> out, rng_rc |-> OK]
            ELSE LET a == ble_sm_sc_random_advance(proc, f, rnd)
                 IN IF a.rc # OK
                      THEN [proc |-> a.proc,
                            res |-> ErrRes(a.rc, BLE_SM_ERR_UNSPECIFIED),
                            out |-> out, rng_rc |-> a.rc]
                      ELSE [proc |-> a.proc,
                            res |-> [ZeroRes EXCEPT !.execute = TRUE],
                            out |-> out, rng_rc |-> OK]

ble_sm_sc_random_go(proc, keys, f, rnd) ==
  IF f = "tx"
    THEN [proc |-> proc, res |-> ErrRes(RC_FAIL, BLE_SM_ERR_UNSPECIFIED),
          out |-> << >>, rng_rc |-> OK]
  ELSE LET out == << Msg("PairingRandom", ble_sm_our_pair_rand(proc)) >>
       IN IF F_INITIATOR \in proc.flags
            THEN [proc |-> proc, res |-> ZeroRes, out |-> out, rng_rc |-> OK]
            ELSE LET a == ble_sm_sc_random_advance(proc, f, rnd)
                 IN IF a.rc # OK
                      THEN [proc |-> a.proc,
                            res |-> ErrRes(a.rc, BLE_SM_ERR_UNSPECIFIED),
                            out |-> out, rng_rc |-> a.rc]
                      ELSE LET n == NumcmpDue(a.proc, keys, ZeroRes, f)
                           IN [proc |-> n.proc, res |-> n.res, out |-> out,
                               rng_rc |-> OK]

\* variant: the initiator flag is not consulted
RandomRxVerifies_method_only(proc) ==
  ble_sm_sc_responder_verifies_random(proc)

\* whether ble_sm_sc_random_rx recomputes the peer's confirm value
RandomRxVerifies(proc) ==
  F_INITIATOR \in proc.flags \/ ble_sm_sc_responder_verifies_random(proc)

\* variant: f5 is given the local address first, whatever the role
DeriveKeys_ownfirst(proc) ==
  LET ia == AddrOf(Me(proc))
      ra == AddrOf(Peer(Me(proc)))
      ltk == alg_f5_ltk(proc.dhkey, proc.randm, proc.rands, ia, ra)
  IN [proc EXCEPT
        !.mackey = alg_f5_mackey(proc.dhkey, proc.randm, proc.rands, ia, ra),
        !.ltk = ltk,
        !.our_keys = [ltk_valid |-> TRUE, ltk |-> ltk],
        !.peer_keys = [ltk_valid |-> TRUE, ltk |-> ltk]]

\* lines 1051-1080: derive the MAC key and the LTK and mark the LTK valid
DeriveKeys(proc) ==
  LET ia == AddrOf("I")
      ra == AddrOf("R")
      ltk == alg_f5_ltk(proc.dhkey, proc.randm, proc.rands, ia, ra)
  IN [proc EXCEPT
        !.mackey = alg_f5_mackey(proc.dhkey, proc.randm, proc.rands, ia, ra),
        !.ltk = ltk,
        !.our_keys = [ltk_valid |-> TRUE, ltk |-> ltk],
        !.peer_keys = [ltk_valid |-> TRUE, ltk |-> ltk]]

\* variant: the initiator's Result asks for execution whether or not the
\* numeric comparison is due
ble_sm_sc_random_rx_exec_always(proc, keys, f, rnd) ==
  IF RandomRxVerifies(proc) /\ f = "f4"
    THEN [proc |-> proc, res |-> ErrRes(RC_FAIL, BLE_SM_ERR_UNSPECIFIED),
          rng_rc |-> OK]
  ELSE IF RandomRxVerifies(proc)
          /\ proc.confirm_peer #
               ble_sm_alg_f4(proc.pub_key_peer, keys.pub,
                             ble_sm_their_pair_rand(proc), proc.ri)
    THEN [proc |-> proc,
          res |-> ErrRes(US_ERR_CONFIRM_MISMATCH, BLE_SM_ERR_UNSPECIFIED),
          rng_rc |-> OK]
  ELSE IF f \in {"addr", "f5"}
    THEN [proc |-> proc, res |-> ErrRes(RC_FAIL, BLE_SM_ERR_UNSPECIFIED),
          rng_rc |-> OK]
  ELSE LET p == DeriveKeys(proc)
       IN IF F_INITIATOR \in p.flags
            THEN LET a == ble_sm_sc_random_advance(p, f, rnd)
                     n == NumcmpDue(a.proc, keys, ZeroRes, f)
                 IN [proc |-> n.proc,
                     res |-> [n.res EXCEPT !.execute = TRUE],
                     rng_rc |-> a.rc]
            ELSE [proc |-> p, res |-> [ZeroRes EXCEPT !.execute = TRUE],
                  rng_rc |-> OK]

\* the peer's nonce has been stored in the procedure by the caller
\* (rng_rc: what ble_sm_sc_random_advance returned to line 1083, where the
\* value is dropped)
ble_sm_sc_random_rx(proc, keys, f, rnd) ==
  IF RandomRxVerifies(proc) /\ f = "f4"
    THEN [proc |-> proc, res |-> ErrRes(RC_FAIL, BLE_SM_ERR_UNSPECIFIED),
          rng_rc |-> OK]
  ELSE IF RandomRxVerifies(proc)
          /\ proc.confirm_peer #
               ble_sm_alg_f4(proc.pub_key_peer, keys.pub,
                             ble_sm_their_pair_rand(proc), proc.ri)
    THEN [proc |-> proc,
          res |-> ErrRes(US_ERR_CONFIRM_MISMATCH, BLE_SM_ERR_UNSPECIFIED),
          rng_rc |-> OK]
  ELSE IF f \in {"addr", "f5"}
    THEN [proc |-> proc, res |-> ErrRes(RC_FAIL, BLE_SM_ERR_UNSPECIFIED),
          rng_rc |-> OK]
  ELSE LET p == DeriveKeys(proc)
       IN IF F_INITIATOR \in p.flags
            THEN LET a == ble_sm_sc_random_advance(p, f, rnd)
                     n == NumcmpDue(a.proc, keys, ZeroRes, f)
                 IN [proc |-> n.proc,
                     res |-> IF n.due THEN n.res
                             ELSE [ZeroRes EXCEPT !.execute = TRUE],
                     rng_rc |-> a.rc]
            ELSE [proc |-> p, res |-> [ZeroRes EXCEPT !.execute = TRUE],
                  rng_rc |-> OK]

----------------------------------------------------------------------------
(* Procedure store *)

\* ble_sm_proc_find on the one connection of the device: the procedure if it
\* is in the expected state (STATE_NONE matches any state)
ble_sm_proc_find(proc, state) ==
  proc.present /\ (state = STATE_NONE \/ proc.state = state)

----------------------------------------------------------------------------
(* Public key exchange *)

\* variant: the responder's state becomes Confirm only when it goes on at once
ble_sm_sc_public_key_go_latestate(proc, keys, f) ==
  LET e == ble_sm_sc_ensure_keys_generated(keys, Me(proc), f)
  IN IF e.rc # OK
       THEN [proc |-> proc, keys |-> e.keys, out |-> << >>,
             res |-> ErrRes(e.rc, BLE_SM_ERR_UNSPECIFIED)]
     ELSE IF f = "tx"
       THEN [proc |-> proc, keys |-> e.keys, out |-> << >>,
             res |-> ErrRes(RC_FAIL, BLE_SM_ERR_UNSPECIFIED)]
     ELSE LET pk == ble_sm_sc_passkey_action(proc)
              r1 == IF ble_sm_pkact_state(pk.action) = STATE_CONFIRM
                      THEN [ZeroRes EXCEPT !.pkact = pk.action] ELSE ZeroRes
              p1 == [pk.proc EXCEPT !.state = STATE_CONFIRM]
              ex == /\ F_INITIATOR \notin p1.flags
                    /\ ble_sm_proc_can_advance(p1)
                    /\ ~ble_sm_sc_initiator_txes_confirm(p1)
          IN [proc |-> IF ex THEN p1 ELSE pk.proc, keys |-> e.keys,
              out |-> << Msg("PublicKey", e.keys.pub) >>,
              res |-> [r1 EXCEPT !.execute = ex]]

ble_sm_sc_public_key_go(proc, keys, f) ==
  LET e == ble_sm_sc_ensure_keys_generated(keys, Me(proc), f)
  IN IF e.rc # OK
       THEN [proc |-> proc, keys |-> e.keys, out |-> << >>,
             res |-> ErrRes(e.rc, BLE_SM_ERR_UNSPECIFIED)]
     ELSE IF f = "tx"
       THEN [proc |-> proc, keys |-> e.keys, out |-> << >>,
             res |-> ErrRes(RC_FAIL, BLE_SM_ERR_UNSPECIFIED)]
     ELSE LET pk == ble_sm_sc_passkey_action(proc)
              r1 == IF ble_sm_pkact_state(pk.action) = STATE_CONFIRM
                      THEN [ZeroRes EXCEPT !.pkact = pk.action] ELSE ZeroRes
              p2 == IF F_INITIATOR \notin pk.proc.flags
                      THEN [pk.proc EXCEPT !.state = STATE_CONFIRM]
                      ELSE pk.proc
              ex == /\ F_INITIATOR \notin p2.flags
                    /\ ble_sm_proc_can_advance(p2)
                    /\ ~ble_sm_sc_initiator_txes_confirm(p2)
          IN [proc |-> p2, keys |-> e.keys,
              out |-> << Msg("PublicKey", e.keys.pub) >>,
              res |-> [r1 EXCEPT !.execute = ex]]

\* variant: the initiator does not ask ble_sm_proc_can_advance
ble_sm_sc_public_key_rx_noadv(proc, keys, d, cmd, f) ==
  IF f = "pullup"
    THEN [proc |-> proc, keys |-> keys,
          res |-> [ZeroRes EXCEPT !.app_status = RC_FAIL, !.enc_cb = TRUE]]
  ELSE LET e == ble_sm_sc_ensure_keys_generated(keys, d, f)
       IN IF e.rc # OK
            THEN [proc |-> proc, keys |-> e.keys,
                  res |-> ErrRes(e.rc, BLE_SM_ERR_UNSPECIFIED)]
          ELSE IF ~ble_sm_proc_find(proc, STATE_PUBLIC_KEY)
            THEN [proc |-> proc, keys |-> e.keys,
                  res |-> [ZeroRes EXCEPT !.app_status = BLE_HS_ENOENT,
                                          !.sm_err = BLE_SM_ERR_UNSPECIFIED]]
          ELSE LET p1 == [proc EXCEPT !.pub_key_peer = cmd]
               IN IF cmd \notin ValidKeys
                    THEN [proc |-> p1, keys |-> e.keys,
                          res |-> ErrRes(US_ERR_DHKEY, BLE_SM_ERR_DHKEY)]
                    ELSE LET p2 == [p1 EXCEPT !.dhkey =
                                      ble_sm_alg_gen_dhkey(cmd, e.keys.priv)]
                         IN IF F_INITIATOR \in p2.flags
                              THEN LET p3 == [p2 EXCEPT !.state = STATE_CONFIRM]
                                   IN [proc |-> p3, keys |-> e.keys,
                                       res |-> [ZeroRes EXCEPT !.execute =
                                         ble_sm_sc_initiator_txes_confirm(p3)]]
                              ELSE [proc |-> p2, keys |-> e.keys,
                                    res |-> [ZeroRes EXCEPT !.execute = TRUE]]

\* variant: the responder, too, is moved to Confirm by the message
ble_sm_sc_public_key_rx_rsp_confirm(proc, keys, d, cmd, f) ==
  IF f = "pullup"
    THEN [proc |-> proc, keys |-> keys,
          res |-> [ZeroRes EXCEPT !.app_status = RC_FAIL, !.enc_cb = TRUE]]
  ELSE LET e == ble_sm_sc_ensure_keys_generated(keys, d, f)
       IN IF e.rc # OK
            THEN [proc |-> proc, keys |-> e.keys,
                  res |-> ErrRes(e.rc, BLE_SM_ERR_UNSPECIFIED)]
          ELSE IF ~ble_sm_proc_find(proc, STATE_PUBLIC_KEY)
            THEN [proc |-> proc, keys |-> e.keys,
                  res |-> [ZeroRes EXCEPT !.app_status = BLE_HS_ENOENT,
                                          !.sm_err = BLE_SM_ERR_UNSPECIFIED]]
          ELSE LET p1 == [proc EXCEPT !.pub_key_peer = cmd]
               IN IF cmd \notin ValidKeys
                    THEN [proc |-> p1, keys |-> e.keys,
                          res |-> ErrRes(US_ERR_DHKEY, BLE_SM_ERR_DHKEY)]
                    ELSE LET p2 == [p1 EXCEPT !.dhkey =
                                      ble_sm_alg_gen_dhkey(cmd, e.keys.priv)]
                             p3 == [p2 EXCEPT !.state = STATE_CONFIRM]
                         IN IF F_INITIATOR \in p2.flags
                              THEN [proc |-> p3, keys |-> e.keys,
                                    res |-> [ZeroRes EXCEPT !.execute =
                                      /\ ble_sm_proc_can_advance(p3)
                                      /\ ble_sm_sc_initiator_txes_confirm(p3)]]
                              ELSE [proc |-> p3, keys |-> e.keys,
                                    res |-> [ZeroRes EXCEPT !.execute = TRUE]]

\* variant: the return code of ble_sm_alg_gen_dhkey is not looked at
ble_sm_sc_public_key_rx_rc_ignored(proc, keys, d, cmd, f) ==
  IF f = "pullup"
    THEN [proc |-> proc, keys |-> keys,
          res |-> [ZeroRes EXCEPT !.app_status = RC_FAIL, !.enc_cb = TRUE]]
  ELSE LET e == ble_sm_sc_ensure_keys_generated(keys, d, f)
       IN IF e.rc # OK
            THEN [proc |-> proc, keys |-> e.keys,
                  res |-> ErrRes(e.rc, BLE_SM_ERR_UNSPECIFIED)]
          ELSE IF ~ble_sm_proc_find(proc, STATE_PUBLIC_KEY)
            THEN [proc |-> proc, keys |-> e.keys,
                  res |-> [ZeroRes EXCEPT !.app_status = BLE_HS_ENOENT,
                                          !.sm_err = BLE_SM_ERR_UNSPECIFIED]]
          ELSE LET p2 == [proc EXCEPT !.pub_key_peer = cmd,
                                      !.dhkey = ble_sm_alg_gen_dhkey(
                                                  cmd, e.keys.priv)]
               IN IF F_INITIATOR \in p2.flags
                    THEN LET p3 == [p2 EXCEPT !.state = STATE_CONFIRM]
                         IN [proc |-> p3, keys |-> e.keys,
                             res |-> [ZeroRes EXCEPT !.execute =
                               /\ ble_sm_proc_can_advance(p3)
                               /\ ble_sm_sc_initiator_txes_confirm(p3)]]
                    ELSE [proc |-> p2, keys |-> e.keys,
                          res |-> [ZeroRes EXCEPT !.execute = TRUE]]

\* cmd is the public key carried by the message
ble_sm_sc_public_key_rx(proc, keys, d, cmd, f) ==
  IF f = "pullup"
    THEN [proc |-> proc, keys |-> keys,
          res |-> [ZeroRes EXCEPT !.app_status = RC_FAIL, !.enc_cb = TRUE]]
  ELSE LET e == ble_sm_sc_ensure_keys_generated(keys, d, f)
       IN IF e.rc # OK
            THEN [proc |-> proc, keys |-> e.keys,
                  res |-> ErrRes(e.rc, BLE_SM_ERR_UNSPECIFIED)]
          ELSE IF ~ble_sm_proc_find(proc, STATE_PUBLIC_KEY)
            THEN [proc |-> proc, keys |-> e.keys,
                  res |-> [ZeroRes EXCEPT !.app_status = BLE_HS_ENOENT,
                                          !.sm_err = BLE_SM_ERR_UNSPECIFIED]]
          ELSE LET p1 == [proc EXCEPT !.pub_key_peer = cmd]
               IN IF cmd \notin ValidKeys
                    THEN [proc |-> p1, keys |-> e.keys,
                          res |-> ErrRes(US_ERR_DHKEY, BLE_SM_ERR_DHKEY)]
                    ELSE LET p2 == [p1 EXCEPT !.dhkey =
                                      ble_sm_alg_gen_dhkey(cmd, e.keys.priv)]
                         IN IF F_INITIATOR \in p2.flags
                              THEN LET p3 == [p2 EXCEPT !.state = STATE_CONFIRM]
                                   IN [proc |-> p3, keys |-> e.keys,
                                       res |-> [ZeroRes EXCEPT !.execute =
                                         /\ ble_sm_proc_can_advance(p3)
                                         /\ ble_sm_sc_initiator_txes_confirm(p3)]]
                              ELSE [proc |-> p2, keys |-> e.keys,
                                    res |-> [ZeroRes EXCEPT !.execute = TRUE]]

----------------------------------------------------------------------------
(* DHKey check *)

ble_sm_sc_dhkey_check_iocap(pair_cmd) ==
  << pair_cmd.io_cap, pair_cmd.oob_data_flag, pair_cmd.authreq >>

ble_sm_sc_dhkey_check_go(proc, f) ==
  LET iocap == IF F_INITIATOR \in proc.flags
                 THEN ble_sm_sc_dhkey_check_iocap(proc.pair_req)
                 ELSE ble_sm_sc_dhkey_check_iocap(proc.pair_rsp)
      our_addr == AddrOf(Me(proc))
      peer_addr == AddrOf(Peer(Me(proc)))
  IN IF f \in {"addr", "f6", "tx"}
       THEN [proc |-> proc, out |-> << >>,
             res |-> ErrRes(RC_FAIL, BLE_SM_ERR_UNSPECIFIED)]
       ELSE [proc |-> IF F_INITIATOR \notin proc.flags
                        THEN [proc EXCEPT !.state = STATE_LTK_START] ELSE proc,
             res |-> ZeroRes,
             out |-> << Msg("DHKeyCheck",
                            ble_sm_alg_f6(proc.mackey,
                                          ble_sm_our_pair_rand(proc),
                                          ble_sm_their_pair_rand(proc),
                                          proc.tk, iocap,
                                          our_addr, peer_addr)) >>]

\* variant: the expected value is computed with the addresses in the order
\* of the transmitted one, the local address first
DhkeyCheckExpected_noswap(proc) ==
  LET iocap == IF F_INITIATOR \in proc.flags
                 THEN ble_sm_sc_dhkey_check_iocap(proc.pair_rsp)
                 ELSE ble_sm_sc_dhkey_check_iocap(proc.pair_req)
  IN ble_sm_alg_f6(proc.mackey, ble_sm_their_pair_rand(proc),
                   ble_sm_our_pair_rand(proc), proc.tk, iocap,
                   AddrOf(Me(proc)), AddrOf(Peer(Me(proc))))

\* the value the peer's DHKey check must have (lines 1270-1293)
DhkeyCheckExpected(proc) ==
  LET iocap == IF F_INITIATOR \in proc.flags
                 THEN ble_sm_sc_dhkey_check_iocap(proc.pair_rsp)
                 ELSE ble_sm_sc_dhkey_check_iocap(proc.pair_req)
  IN ble_sm_alg_f6(proc.mackey, ble_sm_their_pair_rand(proc),
                   ble_sm_our_pair_rand(proc), proc.tk, iocap,
                   AddrOf(Peer(Me(proc))), AddrOf(Me(proc)))

\* variant: the received value is not compared with the expected one
ble_sm_dhkey_check_process_nocmp(proc, cmd, f) ==
  IF f \in {"addr", "f6"}
    THEN [proc |-> proc, res |-> ErrRes(RC_FAIL, BLE_SM_ERR_UNSPECIFIED)]
  ELSE LET pk == ble_sm_sc_passkey_action(proc)
           p1 == IF ble_sm_pkact_state(pk.action) = pk.proc.state
                   THEN [pk.proc EXCEPT !.flags = @ \cup {F_ADVANCE_ON_IO}]
                   ELSE pk.proc
       IN IF ble_sm_proc_can_advance(p1)
            THEN [proc |-> IF F_INITIATOR \in p1.flags
                             THEN [p1 EXCEPT !.state = STATE_ENC_START]
                             ELSE p1,
                  res |-> [ZeroRes EXCEPT !.execute = TRUE]]
            ELSE [proc |-> p1, res |-> ZeroRes]

\* variant: ADVANCE_ON_IO is set before the received value is compared
ble_sm_dhkey_check_process_flagfirst(proc, cmd, f) ==
  LET pk == ble_sm_sc_passkey_action(proc)
      p1 == IF ble_sm_pkact_state(pk.action) = pk.proc.state
              THEN [pk.proc EXCEPT !.flags = @ \cup {F_ADVANCE_ON_IO}]
              ELSE pk.proc
  IN IF f \in {"addr", "f6"}
       THEN [proc |-> p1, res |-> ErrRes(RC_FAIL, BLE_SM_ERR_UNSPECIFIED)]
     ELSE IF cmd # DhkeyCheckExpected(proc)
       THEN [proc |-> p1, res |-> ErrRes(US_ERR_DHKEY, BLE_SM_ERR_DHKEY)]
     ELSE IF ble_sm_proc_can_advance(p1)
       THEN [proc |-> IF F_INITIATOR \in p1.flags
                        THEN [p1 EXCEPT !.state = STATE_ENC_START]
                        ELSE p1,
             res |-> [ZeroRes EXCEPT !.execute = TRUE]]
     ELSE [proc |-> p1, res |-> ZeroRes]

\* variant: the initiator flag is not tested before ENC_START is assigned
ble_sm_dhkey_check_process_anyrole(proc, cmd, f) ==
  IF f \in {"addr", "f6"}
    THEN [proc |-> proc, res |-> ErrRes(RC_FAIL, BLE_SM_ERR_UNSPECIFIED)]
  ELSE IF cmd # DhkeyCheckExpected(proc)
    THEN [proc |-> proc, res |-> ErrRes(US_ERR_DHKEY, BLE_SM_ERR_DHKEY)]
  ELSE LET pk == ble_sm_sc_passkey_action(proc)
           p1 == IF ble_sm_pkact_state(pk.action) = pk.proc.state
                   THEN [pk.proc EXCEPT !.flags = @ \cup {F_ADVANCE_ON_IO}]
                   ELSE pk.proc
       IN IF ble_sm_proc_can_advance(p1)
            THEN [proc |-> [p1 EXCEPT !.state = STATE_ENC_START],
                  res |-> [ZeroRes EXCEPT !.execute = TRUE]]
            ELSE [proc |-> p1, res |-> ZeroRes]

ble_sm_dhkey_check_process(proc, cmd, f) ==
  IF f \in {"addr", "f6"}
    THEN [proc |-> proc, res |-> ErrRes(RC_FAIL, BLE_SM_ERR_UNSPECIFIED)]
  ELSE IF cmd # DhkeyCheckExpected(proc)
    THEN [proc |-> proc, res |-> ErrRes(US_ERR_DHKEY, BLE_SM_ERR_DHKEY)]
  ELSE LET pk == ble_sm_sc_passkey_action(proc)
           p1 == IF ble_sm_pkact_state(pk.action) = pk.proc.state
                   THEN [pk.proc EXCEPT !.flags = @ \cup {F_ADVANCE_ON_IO}]
                   ELSE pk.proc
       IN IF ble_sm_proc_can_advance(p1)
            THEN [proc |-> IF F_INITIATOR \in p1.flags
                             THEN [p1 EXCEPT !.state = STATE_ENC_START]
                             ELSE p1,
                  res |-> [ZeroRes EXCEPT !.execute = TRUE]]
            ELSE [proc |-> p1, res |-> ZeroRes]

ble_sm_sc_dhkey_check_rx(proc, cmd, f) ==
  IF f \in {"pullup", "parse"}
    THEN [proc |-> proc, res |-> ErrRes(RC_FAIL, BLE_SM_ERR_UNSPECIFIED)]
  ELSE IF ~ble_sm_proc_find(proc, STATE_DHKEY_CHECK)
    THEN [proc |-> proc,
          res |-> [ZeroRes EXCEPT !.app_status = BLE_HS_ENOENT]]
  ELSE ble_sm_dhkey_check_process(proc, cmd, f)

----------------------------------------------------------------------------
(* Generic Security Manager plumbing around the Secure Connections steps *)

\* ble_sm_confirm_rx: cmd is the confirm value carried by the message
ble_sm_confirm_rx(proc, cmd) ==
  IF ~ble_sm_proc_find(proc, STATE_CONFIRM)
    THEN [proc |-> proc, res |-> [ZeroRes EXCEPT !.app_status = BLE_HS_ENOENT]]
  ELSE LET p1 == [proc EXCEPT !.confirm_peer = cmd]
       IN IF F_INITIATOR \in p1.flags
            THEN [proc |-> [p1 EXCEPT !.state = STATE_RANDOM],
                  res |-> [ZeroRes EXCEPT !.execute = TRUE]]
            ELSE LET pk == ble_sm_sc_passkey_action(p1)
                     p2 == IF ble_sm_pkact_state(pk.action) = pk.proc.state
                             THEN [pk.proc EXCEPT
                                     !.flags = @ \cup {F_ADVANCE_ON_IO}]
                             ELSE pk.proc
                 IN [proc |-> p2,
                     res |-> [ZeroRes EXCEPT
                                !.execute = ble_sm_proc_can_advance(p2)]]

\* ble_sm_random_rx: stores the peer's nonce, then runs the SC step
ble_sm_random_rx(proc, keys, cmd, f, rnd) ==
  IF ~ble_sm_proc_find(proc, STATE_RANDOM)
    THEN [proc |-> proc, res |-> [ZeroRes EXCEPT !.app_status = BLE_HS_ENOENT],
          rng_rc |-> OK]
    ELSE ble_sm_sc_random_rx(SetTheirRand(proc, cmd), keys, f, rnd)

\* ble_sm_fail_rx: the peer has sent Pairing Failed
ble_sm_fail_rx(proc) ==
  [proc |-> proc,
   res |-> [ZeroRes EXCEPT !.app_status = "PEER_ERR", !.enc_cb = TRUE]]

\* the little-endian bytes of a passkey, as ble_sm_inject_io stores them in tk
PasskeyBytes(passkey) ==
  [i \in 1..BLE_SM_SC_PASSKEY_BYTES |-> (passkey \div (256 ^ (i - 1))) % 256]

\* whether ble_sm_inject_io accepts an answer of kind `action` now
InjectAccepted(proc, action) ==
  /\ ble_sm_proc_find(proc, STATE_NONE)
  /\ F_IO_INJECTED \notin proc.flags
  /\ action = ble_sm_sc_passkey_action(proc).action
  /\ ble_sm_pkact_state(action) = proc.state

InjectExecutes(proc) ==
  F_INITIATOR \in proc.flags \/ F_ADVANCE_ON_IO \in proc.flags

\* ble_sm_inject_io for an accepted answer; io is [action, passkey, oob,
\* numcmp_accept]
ble_sm_inject_io(proc, io) ==
  CASE io.action = PKACT_OOB ->
         [proc |-> [proc EXCEPT !.flags = @ \cup {F_IO_INJECTED},
                                !.tk = << io.oob, 0, 0, 0 >>],
          res |-> [ZeroRes EXCEPT !.execute = InjectExecutes(proc)]]
    [] io.action \in {PKACT_INPUT, PKACT_DISP} ->
         [proc |-> [proc EXCEPT !.flags = @ \cup {F_IO_INJECTED},
                                !.tk = PasskeyBytes(io.passkey)],
          res |-> [ZeroRes EXCEPT !.execute = InjectExecutes(proc)]]
    [] io.action = PKACT_NUMCMP ->
         IF ~io.numcmp_accept
           THEN [proc |-> proc,
                 res |-> [ZeroRes EXCEPT !.app_status = US_ERR_NUMCMP,
                                         !.sm_err = BLE_SM_ERR_NUMCMP]]
           ELSE [proc |-> [proc EXCEPT !.flags = @ \cup {F_IO_INJECTED}],
                 res |-> [ZeroRes EXCEPT !.execute = InjectExecutes(proc)]]

\* the procedure at the moment the Secure Connections exchange begins: the
\* pairing request and response have been exchanged, the own nonce is drawn
ProcInit(d, req, rsp, nonce) ==
  LET p0 == [NoProc EXCEPT
               !.present = TRUE, !.state = STATE_PUBLIC_KEY,
               !.flags = IF d = "I" THEN {F_SC, F_INITIATOR} ELSE {F_SC},
               !.pair_req = req, !.pair_rsp = rsp]
  IN ble_sm_sc_passkey_action(SetOurRand(p0, nonce)).proc

\* ble_sm_process_result, one iteration: whether the procedure is removed
ResultRemoves(proc, res) ==
  proc.present /\ (res.app_status # OK \/ proc.state = STATE_NONE)

----------------------------------------------------------------------------
(* The host's event loop and heartbeat timer (ble_hs.c).  The events of     *)
(* ble_hs_evq are HCI events, the events of the two data queues and the     *)
(* notification event; the reset event and callouts that other modules put  *)
(* on ble_hs_evq are left out.                                              *)

\* HCI event buffers of the transport's pool
NumBufs == 2
Bufs == 1..NumBufs
\* blocks of ble_hs_hci_ev_pool (ble_hs_cfg.max_hci_bufs)
PoolSize == 1
\* packets a data queue holds at most
MaxData == 1
\* the OS time does not advance beyond MaxNow
MaxNow == 8
\* ticks per second of the OS clock (scaled down)
OS_TICKS_PER_SEC == 10

BLE_HS_MAX_EVS_IN_A_ROW == 2
BLE_HS_HEARTBEAT_OS_TICKS == OS_TICKS_PER_SEC
BLE_HS_SYNC_RETRY_RATE == OS_TICKS_PER_SEC \div 10
\* INT32_MAX
BLE_HS_FOREVER == 2147483647

BLE_HOST_HCI_EVENT_CTLR_EVENT == "HCI_EVENT_CTLR_EVENT"
OS_EVENT_T_MQUEUE_DATA == "MQUEUE_DATA"
BLE_HS_EVENT_TX_NOTIFICATIONS == "TX_NOTIFICATIONS"

\* an os_event of ble_hs_evq: its type, the HCI buffer it carries as ev_arg
\* (0: none) and the data queue it belongs to ("": none)
OsEvent(type, buf, q) == [type |-> type, buf |-> buf, q |-> q]

ble_hs_event_tx_notifications == OsEvent(BLE_HS_EVENT_TX_NOTIFICATIONS, 0, "")
\* the event of an os_mqueue
mq_ev(q) == OsEvent(OS_EVENT_T_MQUEUE_DATA, 0, q)

\* the host after ble_hs_init
\*   evq        ble_hs_evq
\*   co_queued  the event of ble_hs_event_co is on the parent task's queue
\*   at, i      where ble_hs_event_handle is, and its counter
\*   nrow       events handled by the current invocation (history)
\*   pool       free blocks of ble_hs_hci_ev_pool
\*   buf        each HCI buffer: "free" (in the transport's pool), "held"
\*              (taken from the pool, not owned by a queued event), "queued"
\*   rx_q,tx_q  packets in ble_hs_rx_q and ble_hs_tx_q
\*   crashed    the read through a null pointer trapped
\*   started    ble_hs_start has run
\*   hb_queued  ble_hs_heartbeat_timer is armed; c_ticks: when it expires
\*   hb_pending the timer's event is on the parent task's queue
\*   now        os_time_get()
\*   synced     ble_hs_synced
HsInit ==
  [evq |-> << >>, co_queued |-> FALSE, at |-> "idle", i |-> 0, nrow |-> 0,
   pool |-> PoolSize, buf |-> [b \in Bufs |-> "free"],
   rx_q |-> 0, tx_q |-> 0, crashed |-> FALSE,
   started |-> FALSE, hb_queued |-> FALSE, hb_pending |-> FALSE,
   c_ticks |-> 0, now |-> 0, synced |-> FALSE]

\* os_eventq_put: an event that is already queued is not queued again
os_eventq_put(evq, ev) ==
  IF \E k \in 1..Len(evq) : evq[k] = ev THEN evq ELSE Append(evq, ev)

ble_hs_event_enqueue(hs, ev) ==
  [hs EXCEPT !.evq = os_eventq_put(@, ev), !.co_queued = TRUE]

\* os_memblock_put on the transport's pool; x = 0 stands for a value that is
\* no block of the pool
ble_hci_trans_free_buf(hs, x) ==
  IF x \in Bufs THEN [hs EXCEPT !.buf[x] = "free"] ELSE hs

\* hci_evt is a buffer the caller holds.  With the pool exhausted ev is NULL
\* and ev->ev_arg is read through it: the read traps, or it yields some value
\* x that is handed to ble_hci_trans_free_buf.
ble_hs_enqueue_hci_event(hs, hci_evt, trap, x) ==
  IF hs.pool = 0
    THEN IF trap THEN [hs EXCEPT !.crashed = TRUE]
                 ELSE ble_hci_trans_free_buf(hs, x)
    ELSE ble_hs_event_enqueue(
           [hs EXCEPT !.pool = @ - 1, !.buf[hci_evt] = "queued"],
           OsEvent(BLE_HOST_HCI_EVENT_CTLR_EVENT, hci_evt, ""))

\* os_mqueue_put refuses an mbuf that is no packet header; ble_hs_rx_data
\* then frees the mbuf
ble_hs_rx_data(hs, pkthdr) ==
  IF pkthdr
    THEN [hs EXCEPT !.rx_q = @ + 1, !.evq = os_eventq_put(@, mq_ev("rx")),
                    !.co_queued = TRUE]
    ELSE hs

ble_hs_tx_data(hs, pkthdr) ==
  IF pkthdr
    THEN [hs EXCEPT !.tx_q = @ + 1, !.evq = os_eventq_put(@, mq_ev("tx")),
                    !.co_queued = TRUE]
    ELSE hs

ble_hs_process_tx_data_queue(hs) == [hs EXCEPT !.tx_q = 0]
ble_hs_process_rx_data_queue(hs) == [hs EXCEPT !.rx_q = 0]

\* host_hci_evt_process handles the event and returns its buffer to the
\* transport
host_hci_evt_process(hs, hci_evt) == ble_hci_trans_free_buf(hs, hci_evt)

\* the parent task takes the event of ble_hs_event_co from its queue and
\* calls ble_hs_event_handle
ble_hs_event_handle_enter(hs) ==
  [hs EXCEPT !.co_queued = FALSE, !.at = "loop", !.i = 0, !.nrow = 0]

ble_hs_event_handle_return(hs) == [hs EXCEPT !.at = "idle", !.i = 0]

\* variant: the loop stops after the limit without posting the wake-up event
ble_hs_event_handle_iter_nowake(hs) ==
  IF hs.i >= BLE_HS_MAX_EVS_IN_A_ROW
    THEN ble_hs_event_handle_return(hs)
  ELSE IF hs.evq = << >>
    THEN ble_hs_event_handle_return(hs)
  ELSE LET ev == Head(hs.evq)
           h1 == [hs EXCEPT !.i = @ + 1, !.evq = Tail(@), !.nrow = @ + 1]
       IN IF ev.type = BLE_HOST_HCI_EVENT_CTLR_EVENT
            THEN host_hci_evt_process([h1 EXCEPT !.pool = @ + 1], ev.buf)
            ELSE ble_hs_process_rx_data_queue(ble_hs_process_tx_data_queue(h1))

\* one iteration of the loop of ble_hs_event_handle
ble_hs_event_handle_iter(hs) ==
  IF hs.i >= BLE_HS_MAX_EVS_IN_A_ROW
    THEN ble_hs_event_handle_return([hs EXCEPT !.co_queued = TRUE])
  ELSE IF hs.evq = << >>
    THEN ble_hs_event_handle_return(hs)
  ELSE LET ev == Head(hs.evq)
           h1 == [hs EXCEPT !.i = @ + 1, !.evq = Tail(@), !.nrow = @ + 1]
       IN IF ev.type = BLE_HOST_HCI_EVENT_CTLR_EVENT
            THEN host_hci_evt_process([h1 EXCEPT !.pool = @ + 1], ev.buf)
            ELSE \* TX_NOTIFICATIONS falls through to MQUEUE_DATA
                 ble_hs_process_rx_data_queue(ble_hs_process_tx_data_queue(h1))

\* (os_stime_t)(t1 - t2) < 0; the ticks of the model stay far below 2^31
OS_TIME_TICK_LT(t1, t2) == t1 - t2 < 0

os_callout_queued(hs) == hs.hb_queued

\* os_callout_reset stops the callout, which also takes its event off the
\* queue, and arms it for `ticks` from now
os_callout_reset(hs, ticks) ==
  [hs EXCEPT !.hb_queued = TRUE, !.hb_pending = FALSE,
             !.c_ticks = hs.now + ticks]

ble_hs_heartbeat_timer_reset(hs, ticks) == os_callout_reset(hs, ticks)

\* variant: the time of the request is made absolute before the comparison
ble_hs_heartbeat_sched_abs(hs, ticks_from_now) ==
  IF ticks_from_now = BLE_HS_FOREVER
    THEN hs
  ELSE IF \/ ~os_callout_queued(hs)
          \/ OS_TIME_TICK_LT(hs.now + ticks_from_now, hs.c_ticks)
    THEN ble_hs_heartbeat_timer_reset(hs, ticks_from_now)
  ELSE hs

ble_hs_heartbeat_sched(hs, ticks_from_now) ==
  IF ticks_from_now = BLE_HS_FOREVER
    THEN hs
  ELSE IF \/ ~os_callout_queued(hs)
          \/ OS_TIME_TICK_LT(ticks_from_now, hs.c_ticks)
    THEN ble_hs_heartbeat_timer_reset(hs, ticks_from_now)
  ELSE hs

\* ok: ble_hs_startup_go succeeded
ble_hs_sync(hs, ok) ==
  ble_hs_heartbeat_sched([hs EXCEPT !.synced = @ \/ ok],
                         BLE_HS_SYNC_RETRY_RATE)

\* t: what ble_gattc_heartbeat, ble_gap_heartbeat, ble_l2cap_sig_heartbeat
\* and ble_sm_heartbeat return, in this order
ble_hs_heartbeat(hs, ok, t) ==
  IF ~hs.synced
    THEN ble_hs_sync(hs, ok)
    ELSE ble_hs_heartbeat_sched(
           ble_hs_heartbeat_sched(
             ble_hs_heartbeat_sched(
               ble_hs_heartbeat_sched(
                 ble_hs_heartbeat_sched(hs, BLE_HS_HEARTBEAT_OS_TICKS),
                 t[1]), t[2]), t[3]), t[4])

ble_hs_start(hs, ok) ==
  ble_hs_sync(ble_hs_heartbeat_timer_reset([hs EXCEPT !.started = TRUE],
                                           BLE_HS_HEARTBEAT_OS_TICKS), ok)

----------------------------------------------------------------------------
(* State *)

VARIABLES
  proc,      \* proc[d]: the pairing procedure of device d (NoProc when removed)
  keys,      \* keys[d]: the process-wide ECDH key pair of device d
  res,       \* res[d]: the Result of the latest step on device d
  pc,        \* pc[d]: "idle", "settle" (result being processed) or "exec"
  chan,      \* chan[d]: messages in flight towards device d
  hist,      \* hist[d]: what the latest steps did (history, not program state)
  altered,   \* whether a message has been altered in flight in this run
  \* one host with several connections and two tasks (SpecHost below):
  sc,        \* ble_sm_sc_pub_key, ble_sm_sc_priv_key, ble_sm_sc_keys_generated
  mutex,     \* ble_hs_mutex: the task that holds it, or "none"
  store,     \* store[c]: the procedure of connection c in the procedure store
  task,      \* task[t]: where task t is in its step, and the step's locals
  ks,        \* what the key pair was used for (history, not program state)
  \* the host's event loop and heartbeat timer (SpecEv and SpecHb below):
  hs

\* the two ends of one connection
lvars == << proc, keys, res, pc, chan, hist, altered, hs >>
\* one host
hvars == << sc, mutex, store, task, ks, hs >>
\* the Security Manager
smvars == << proc, keys, res, pc, chan, hist, altered,
             sc, mutex, store, task, ks >>

vars == << proc, keys, res, pc, chan, hist, altered,
           sc, mutex, store, task, ks, hs >>

\* connections of one host, and the tasks that run Security Manager code: the
\* host task (ble_hs_event_handle) and the task of the application
Conns == {1, 2}
Tasks == {"host", "app"}

\* a task that is not inside a step
TaskIdle ==
  [at |-> "idle", conn |-> 1, cmd |-> 0, res |-> ZeroRes,
   io |-> [action |-> PKACT_NONE, passkey |-> 0, oob |-> 0,
           numcmp_accept |-> TRUE],
   flagval |-> FALSE]

\* the host after ble_sm_sc_init: no key pair, no procedure, nobody in a step
HostInit ==
  /\ sc = NoKeyPair
  /\ mutex = "none"
  /\ store = [c \in Conns |-> NoProc]
  /\ task = [t \in Tasks |-> TaskIdle]
  /\ ks = [sent |-> {}, used |-> {}, nok |-> 0]
  /\ hs = HsInit

PairCmds ==
  [io_cap : IoCaps, oob_data_flag : BOOLEAN,
   authreq : {{AUTHREQ_SC}, {AUTHREQ_SC, AUTHREQ_MITM}}]

\* The exchange is run for every pair of IO capabilities with both sides asking
\* for the same OOB and MITM settings; SpecPka below covers the mixed settings.
SameSecurity(req, rsp) ==
  req.oob_data_flag = rsp.oob_data_flag /\ req.authreq = rsp.authreq

\* what is kept of the steps taken: the last step, whether it checked the
\* confirm value, whether its message had been altered, counts of what was
\* run and sent, whether the random source failed in it (rng_failed) and
\* whether any collaborator failed in it, that is, whether the fault drawn
\* made the step differ from the step without fault (failed)
NoHist ==
  [op |-> "pair", verified |-> FALSE, rx_corrupt |-> FALSE,
   dhkey_ok |-> FALSE, nconfirm_go |-> 0, nconfirm_tx |-> 0, nrandom_tx |-> 0, ndhkey_tx |-> 0,
   notified |-> FALSE, rng_failed |-> FALSE, failed |-> FALSE,
   npublic_key_tx |-> 0]

Init ==
  /\ \E req \in PairCmds, rsp \in PairCmds, ni \in Nonces("I"), nr \in Nonces("R") :
       /\ SameSecurity(req, rsp)
       /\ proc = [d \in Roles |->
                 ProcInit(d, req, rsp, IF d = "I" THEN ni ELSE nr)]
  /\ keys = [d \in Roles |-> NoKeyPair]
  /\ res = [d \in Roles |->
              IF d = "I" THEN [ZeroRes EXCEPT !.execute = TRUE] ELSE ZeroRes]
  /\ pc = [d \in Roles |-> IF d = "I" THEN "exec" ELSE "idle"]
  /\ chan = [d \in Roles |-> << >>]
  /\ hist = [d \in Roles |-> NoHist]
  /\ altered = FALSE
  /\ HostInit

\* the messages `out` leave device d
Send(d, out) == chan' = [chan EXCEPT ![Peer(d)] = @ \o out]

CountTx(h, out, type, n) ==
  IF out # << >> /\ out[1].type = type THEN n + 1 ELSE n

HistTx(h, out) ==
  [h EXCEPT !.nconfirm_tx = CountTx(h, out, "PairingConfirm", @),
            !.nrandom_tx = CountTx(h, out, "PairingRandom", @),
            !.ndhkey_tx = CountTx(h, out, "DHKeyCheck", @),
            !.npublic_key_tx = CountTx(h, out, "PublicKey", @)]

----------------------------------------------------------------------------
(* Steps driven by ble_sm_exec: the state's "go" function *)

ExecGuard(d, state) ==
  /\ pc[d] = "exec"
  /\ ble_sm_proc_find(proc[d], STATE_NONE)
  /\ proc[d].state = state

ExecPublicKey(d) ==
  /\ ExecGuard(d, STATE_PUBLIC_KEY)
  /\ \E f \in {"none", "keygen", "tx"} :
       LET r == ble_sm_sc_public_key_go(proc[d], keys[d], f)
       IN /\ proc' = [proc EXCEPT ![d] = r.proc]
          /\ keys' = [keys EXCEPT ![d] = r.keys]
          /\ res' = [res EXCEPT ![d] = r.res]
          /\ Send(d, r.out)
          /\ hist' = [hist EXCEPT ![d] =
                        [HistTx(@, r.out) EXCEPT
                           !.op = "public_key_go", !.rng_failed = FALSE,
                           !.failed =
                              r # ble_sm_sc_public_key_go(proc[d], keys[d],
                                                          "none")]]
  /\ pc' = [pc EXCEPT ![d] = "settle"]
  /\ UNCHANGED altered
  /\ UNCHANGED hvars

ExecConfirm(d) ==
  /\ ExecGuard(d, STATE_CONFIRM)
  /\ \E f \in {"none", "rand", "f4", "tx"}, rnd \in RiVals :
       LET r == ble_sm_sc_confirm_go(proc[d], keys[d], f, rnd)
       IN /\ proc' = [proc EXCEPT ![d] = r.proc]
          /\ res' = [res EXCEPT ![d] = r.res]
          /\ Send(d, r.out)
          /\ hist' = [hist EXCEPT ![d] =
                        [HistTx(@, r.out) EXCEPT !.op = "confirm_go",
                                                 !.nconfirm_go = @ + 1,
                                                 !.rng_failed = r.rng_rc # OK,
                           !.failed =
                              r # ble_sm_sc_confirm_go(proc[d], keys[d],
                                                       "none", rnd)]]
  /\ pc' = [pc EXCEPT ![d] = "settle"]
  /\ UNCHANGED << keys, altered >>
  /\ UNCHANGED hvars

ExecRandom(d) ==
  /\ ExecGuard(d, STATE_RANDOM)
  /\ \E f \in {"none", "tx", "rand", "g2"}, rnd \in Nonces(d) :
       LET r == ble_sm_sc_random_go(proc[d], keys[d], f, rnd)
       IN /\ proc' = [proc EXCEPT ![d] = r.proc]
          /\ res' = [res EXCEPT ![d] = r.res]
          /\ Send(d, r.out)
          /\ hist' = [hist EXCEPT ![d] =
                        [HistTx(@, r.out) EXCEPT
                           !.op = "random_go", !.rng_failed = r.rng_rc # OK,
                           !.failed =
                              r # ble_sm_sc_random_go(proc[d], keys[d],
                                                      "none", rnd)]]
  /\ pc' = [pc EXCEPT ![d] = "settle"]
  /\ UNCHANGED << keys, altered >>
  /\ UNCHANGED hvars

ExecDhkeyCheck(d) ==
  /\ ExecGuard(d, STATE_DHKEY_CHECK)
  /\ \E f \in {"none", "addr", "f6", "tx"} :
       LET r == ble_sm_sc_dhkey_check_go(proc[d], f)
       IN /\ proc' = [proc EXCEPT ![d] = r.proc]
          /\ res' = [res EXCEPT ![d] = r.res]
          /\ Send(d, r.out)
          /\ hist' = [hist EXCEPT ![d] =
                        [HistTx(@, r.out) EXCEPT
                           !.op = "dhkey_check_go", !.rng_failed = FALSE,
                           !.failed =
                              r # ble_sm_sc_dhkey_check_go(proc[d], "none")]]
  /\ pc' = [pc EXCEPT ![d] = "settle"]
  /\ UNCHANGED << keys, altered >>
  /\ UNCHANGED hvars

\* the initiator asks the controller to start encryption with the LTK; the
\* rest of the procedure belongs to the link layer
ExecEncStart(d) ==
  /\ ExecGuard(d, STATE_ENC_START)
  /\ res' = [res EXCEPT ![d] = ZeroRes]
  /\ hist' = [hist EXCEPT ![d].op = "enc_start_go",
                            ![d].rng_failed = FALSE, ![d].failed = FALSE]
  /\ pc' = [pc EXCEPT ![d] = "settle"]
  /\ UNCHANGED << proc, keys, chan, altered >>
  /\ UNCHANGED hvars

----------------------------------------------------------------------------
(* Steps driven by an inbound message *)

RxGuard(d, type) ==
  /\ pc[d] = "idle"
  /\ chan[d] # << >>
  /\ Head(chan[d]).type = type

\* what every rx step does besides running its handler
RxDone(d, op, h) ==
  /\ chan' = [chan EXCEPT ![d] = Tail(@)]
  /\ hist' = [hist EXCEPT ![d] =
                [h EXCEPT !.op = op, !.rx_corrupt = Head(chan[d]).corrupt]]
  /\ pc' = [pc EXCEPT ![d] = "settle"]
  /\ UNCHANGED altered

RxPublicKey(d) ==
  /\ RxGuard(d, "PublicKey")
  /\ \E f \in {"none", "pullup", "keygen"} :
       LET r == ble_sm_sc_public_key_rx(proc[d], keys[d], d,
                                        Head(chan[d]).value, f)
       IN /\ proc' = [proc EXCEPT ![d] = r.proc]
          /\ keys' = [keys EXCEPT ![d] = r.keys]
          /\ res' = [res EXCEPT ![d] = r.res]
          /\ RxDone(d, "public_key_rx",
                    [hist[d] EXCEPT
                       !.rng_failed = FALSE,
                       !.failed =
                          r # ble_sm_sc_public_key_rx(proc[d], keys[d], d,
                                                      Head(chan[d]).value,
                                                      "none")])
  /\ UNCHANGED hvars

RxConfirm(d) ==
  /\ RxGuard(d, "PairingConfirm")
  /\ LET r == ble_sm_confirm_rx(proc[d], Head(chan[d]).value)
     IN /\ proc' = [proc EXCEPT ![d] = r.proc]
        /\ res' = [res EXCEPT ![d] = r.res]
  /\ RxDone(d, "confirm_rx",
            [hist[d] EXCEPT !.rng_failed = FALSE, !.failed = FALSE])
  /\ UNCHANGED keys
  /\ UNCHANGED hvars

RxRandom(d) ==
  /\ RxGuard(d, "PairingRandom")
  /\ \E f \in {"none", "f4", "addr", "f5", "rand", "g2"}, rnd \in Nonces(d) :
       LET r == ble_sm_random_rx(proc[d], keys[d], Head(chan[d]).value, f, rnd)
       IN /\ proc' = [proc EXCEPT ![d] = r.proc]
          /\ res' = [res EXCEPT ![d] = r.res]
          /\ RxDone(d, "random_rx",
                    [hist[d] EXCEPT
                       !.rng_failed = r.rng_rc # OK,
                       !.failed =
                          r # ble_sm_random_rx(proc[d], keys[d],
                                               Head(chan[d]).value, "none", rnd),
                       !.verified =
                       /\ ble_sm_proc_find(proc[d], STATE_RANDOM)
                       /\ RandomRxVerifies(proc[d])])
  /\ UNCHANGED keys
  /\ UNCHANGED hvars

RxDhkeyCheck(d) ==
  /\ RxGuard(d, "DHKeyCheck")
  /\ \E f \in {"none", "pullup", "parse", "addr", "f6"} :
       LET r == ble_sm_sc_dhkey_check_rx(proc[d], Head(chan[d]).value, f)
       IN /\ proc' = [proc EXCEPT ![d] = r.proc]
          /\ res' = [res EXCEPT ![d] = r.res]
          /\ RxDone(d, "dhkey_check_rx",
                    [hist[d] EXCEPT
                       !.rng_failed = FALSE,
                       !.failed =
                          r # ble_sm_sc_dhkey_check_rx(proc[d],
                                                       Head(chan[d]).value,
                                                       "none"),
                       !.dhkey_ok =
                       \/ @
                       \/ /\ ble_sm_proc_find(proc[d], STATE_DHKEY_CHECK)
                          /\ f \notin {"pullup", "parse", "addr", "f6"}
                          /\ Head(chan[d]).value = DhkeyCheckExpected(proc[d])])
  /\ UNCHANGED keys
  /\ UNCHANGED hvars

RxPairFail(d) ==
  /\ RxGuard(d, "PairingFailed")
  /\ res' = [res EXCEPT ![d] = ble_sm_fail_rx(proc[d]).res]
  /\ RxDone(d, "fail_rx",
            [hist[d] EXCEPT !.rng_failed = FALSE, !.failed = FALSE])
  /\ UNCHANGED << proc, keys >>
  /\ UNCHANGED hvars

----------------------------------------------------------------------------
(* The application answers a passkey action *)

IoAnswers ==
  [action : {PKACT_INPUT, PKACT_DISP}, passkey : Passkeys, oob : {0},
   numcmp_accept : {TRUE}]
  \cup [action : {PKACT_OOB}, passkey : {0}, oob : OobVals,
        numcmp_accept : {TRUE}]
  \cup [action : {PKACT_NUMCMP}, passkey : {0}, oob : {0},
        numcmp_accept : BOOLEAN]

InjectIo(d) ==
  /\ pc[d] = "idle"
  /\ \E io \in IoAnswers :
       /\ InjectAccepted(proc[d], io.action)
       /\ LET r == ble_sm_inject_io(proc[d], io)
          IN /\ proc' = [proc EXCEPT ![d] = r.proc]
             /\ res' = [res EXCEPT ![d] = r.res]
  /\ hist' = [hist EXCEPT ![d].op = "inject_io", ![d].rng_failed = FALSE, ![d].failed = FALSE]
  /\ pc' = [pc EXCEPT ![d] = "settle"]
  /\ UNCHANGED << keys, chan, altered >>
  /\ UNCHANGED hvars

----------------------------------------------------------------------------
(* ble_sm_process_result: one iteration of the loop after a step *)

Settle(d) ==
  /\ pc[d] = "settle"
  /\ LET rm == ResultRemoves(proc[d], res[d])
     IN /\ proc' = [proc EXCEPT ![d] = IF rm THEN NoProc ELSE @]
        /\ Send(d, IF res[d].sm_err # SM_ERR_NONE
                     THEN << Msg("PairingFailed", res[d].sm_err) >>
                     ELSE << >>)
        /\ hist' = [hist EXCEPT ![d].notified =
                      @ \/ (proc[d].present /\ res[d].enc_cb)]
        /\ pc' = [pc EXCEPT ![d] =
                    IF proc[d].present /\ ~rm /\ res[d].execute
                      THEN "exec" ELSE "idle"]
  /\ UNCHANGED << keys, res, altered >>
  /\ UNCHANGED hvars

----------------------------------------------------------------------------
(* A message is altered in flight *)

Altered(m) ==
  CASE m.type = "PublicKey" -> {0}
    [] m.type = "PairingRandom" -> {0}
    [] m.type = "PairingConfirm" -> {[m.value EXCEPT ![1] = "f4x"]}
    [] m.type = "DHKeyCheck" -> {[m.value EXCEPT ![1] = "f6x"]}
    [] OTHER -> {}

Corrupt(d) ==
  /\ ~altered
  /\ chan[d] # << >>
  /\ ~Head(chan[d]).corrupt
  /\ \E v \in Altered(Head(chan[d])) :
       chan' = [chan EXCEPT ![d][1] = [@ EXCEPT !.value = v, !.corrupt = TRUE]]
  /\ altered' = TRUE
  /\ UNCHANGED << proc, keys, res, pc, hist >>
  /\ UNCHANGED hvars

----------------------------------------------------------------------------
Next ==
  \E d \in Roles :
    \/ ExecPublicKey(d)
    \/ ExecConfirm(d)
    \/ ExecRandom(d)
    \/ ExecDhkeyCheck(d)
    \/ ExecEncStart(d)
    \/ RxPublicKey(d)
    \/ RxConfirm(d)
    \/ RxRandom(d)
    \/ RxDhkeyCheck(d)
    \/ RxPairFail(d)
    \/ InjectIo(d)
    \/ Settle(d)
    \/ Corrupt(d)

Spec == Init /\ [][Next]_vars

----------------------------------------------------------------------------
(* The exchange with an unsolicited PublicKey message, for the pairs of     *)
(* equal IO capabilities (which give all four methods)                      *)

\* A PublicKey message that the peer did not send arrives on the connection
\* at a moment when nothing else is in flight towards d: it carries a valid
\* key that is not the peer's
InjectPublicKey(d) ==
  /\ ~altered
  /\ proc[d].present
  /\ proc[d].passkey_bits_exchanged <= MaxInjectRound
  /\ chan[d] = << >>
  /\ \E v \in ValidKeys \ {KeyOf(Peer(d))} :
       chan' = [chan EXCEPT ![d] =
                  << [Msg("PublicKey", v) EXCEPT !.corrupt = TRUE] >>]
  /\ altered' = TRUE
  /\ UNCHANGED << proc, keys, res, pc, hist >>
  /\ UNCHANGED hvars

InitInj ==
  /\ Init
  /\ proc["I"].pair_req.io_cap = proc["I"].pair_rsp.io_cap

NextInj ==
  \/ Next
  \/ \E d \in Roles : InjectPublicKey(d)

SpecInj == InitInj /\ [][NextInj]_vars

----------------------------------------------------------------------------
(* One host: two connections, the host task and an application task, the    *)
(* host mutex and the process-wide key pair                                 *)

\* the pairing command both sides of connection c send: MITM protection, and
\* KeyboardOnly on connection 1 (passkey entry), DisplayYesNo on the others
\* (numeric comparison)
HostCmd(c) ==
  [io_cap |-> IF c = 1 THEN 2 ELSE 1, oob_data_flag |-> FALSE,
   authreq |-> {AUTHREQ_SC, AUTHREQ_MITM}]

\* the host initiated connection 1 and answers on the others
HostRole(c) == IF c = 1 THEN "I" ELSE "R"

\* the nonces of the two sides of a connection of the host
HostNonce(d) == IF d = "I" THEN 1 ELSE 2

\* the answers the application of the host gives
HostIoAnswers ==
  {io \in IoAnswers :
     io.action \in {PKACT_INPUT, PKACT_NUMCMP} /\ io.passkey \in {0, 370085}}

\* the statement that follows the ble_hs_lock or ble_hs_unlock call a task
\* is at
AfterCall(at) ==
  CASE at = "pk_lock" -> "pk_body"
    [] at = "pk_unlock" -> "pr_lock"
    [] at = "dh_lock" -> "dh_body"
    [] at = "dh_unlock" -> "pr_lock"
    [] at = "io_lock" -> "io_body"
    [] at = "pr_lock" -> "pr_body"

\* variant: no unlock on the path where no procedure is found
ble_sm_sc_dhkey_check_rx_exit_early(found) ==
  IF found THEN "dh_unlock" ELSE "pr_lock"

\* where ble_sm_sc_dhkey_check_rx goes after the lookup and the processing:
\* every path leads to ble_hs_unlock
ble_sm_sc_dhkey_check_rx_exit(found) == "dh_unlock"

\* variant: the lookup does not compare the connection handle and returns
\* the first procedure of the list
Slot_first(t) == 1

\* the entry of the procedure list ble_sm_proc_find gives to the step of task
\* t: the one whose conn_handle is that of the step
Slot(t) == task[t].conn

Cur(t) == store[Slot(t)]

Step(t, at) == task' = [task EXCEPT ![t].at = at]

Return(t, r) == task' = [task EXCEPT ![t].at = "pr_lock", ![t].res = r]

\* whether one more successful run of the generator happened
NewPair(k) == IF k.pub # sc.pub THEN 1 ELSE 0

\* faults of the key generator are drawn while fewer than MaxKeygenFail runs
\* have been made
KeygenFaults == IF sc.ngen < MaxKeygenFail THEN {"keygen"} ELSE {}

(* ble_sm_pair_req_rx / ble_sm_pair_rsp_rx on the host task: the feature    *)
(* exchange of connection c ends and its procedure enters PUBLIC_KEY        *)
StartSc(c) ==
  /\ task["host"].at = "idle"
  /\ mutex = "none"
  /\ ~store[c].present
  /\ LET d == HostRole(c)
     IN /\ store' = [store EXCEPT ![c] =
                       ProcInit(d, HostCmd(c), HostCmd(c), HostNonce(d))]
        /\ task' = [task EXCEPT !["host"] =
                      [TaskIdle EXCEPT !.at = "pr_lock", !.conn = c,
                                       !.res = [ZeroRes EXCEPT !.execute = (d = "I")]]]
  /\ UNCHANGED << sc, mutex, ks >>
  /\ UNCHANGED lvars

(* ble_hs_process_rx_data_queue on the host task takes the next message the  *)
(* peer of connection c has sent                                            *)
HostRx(c) ==
  /\ task["host"].at = "idle"
  /\ store[c].present
  /\ \E m \in {Msg("PublicKey", v) : v \in {0, 1}}
             \cup {Msg("DHKeyCheck", v) :
                     v \in {DhkeyCheckExpected(store[c]), << "f6x" >>}} :
       task' = [task EXCEPT !["host"] =
                  [TaskIdle EXCEPT
                     !.at = IF m.type = "PublicKey" THEN "pk_pullup"
                                                     ELSE "dh_pullup",
                     !.conn = c, !.cmd = m.value]]
  /\ UNCHANGED << sc, mutex, store, ks >>
  /\ UNCHANGED lvars

(* The Confirm and Random exchange of connection c, taken as one step of    *)
(* the host task under the mutex: the procedure reaches DHKEY_CHECK         *)
Progress(c) ==
  /\ task["host"].at = "idle"
  /\ mutex = "none"
  /\ store[c].present
  /\ \/ store[c].state = STATE_RANDOM
     \/ /\ store[c].state = STATE_CONFIRM
        /\ \/ ble_sm_pkact_state(ble_sm_sc_passkey_action(store[c]).action)
                # STATE_CONFIRM
           \/ F_IO_INJECTED \in store[c].flags
  /\ \/ LET p == DeriveKeys(SetTheirRand(store[c],
                                           HostNonce(Peer(Me(store[c])))))
        IN /\ store' = [store EXCEPT ![c] =
                          [p EXCEPT !.state = STATE_DHKEY_CHECK,
                                    !.passkey_bits_exchanged =
                                       IF p.pair_alg = ALG_PASSKEY
                                         THEN BLE_SM_SC_PASSKEY_BITS ELSE @]]
           /\ task' = [task EXCEPT !["host"] =
                         [TaskIdle EXCEPT
                            !.at = "pr_lock", !.conn = c,
                            !.res = [ZeroRes EXCEPT !.execute =
                                       /\ F_INITIATOR \in p.flags
                                       /\ p.pair_alg # ALG_NUMCMP]]]
     \* or the exchange ends in a failure of f4, f5 or the random source,
     \* or in a confirm mismatch
     \/ \E st \in {RC_FAIL, US_ERR_CONFIRM_MISMATCH} :
          /\ store[c].state = STATE_RANDOM
          /\ task' = [task EXCEPT !["host"] =
                        [TaskIdle EXCEPT
                           !.at = "pr_lock", !.conn = c,
                           !.res = ErrRes(st, BLE_SM_ERR_UNSPECIFIED)]]
          /\ store' = store
  /\ UNCHANGED << sc, mutex, ks >>
  /\ UNCHANGED lvars

(* ble_hs_lock: os_mutex_pend(&ble_hs_mutex, 0xffffffff) returns once nobody *)
(* holds the mutex; ble_hs_unlock: os_mutex_release                         *)

ble_hs_lock(t) ==
  /\ task[t].at \in {"pk_lock", "dh_lock", "io_lock", "pr_lock"}
  /\ mutex = "none"
  /\ mutex' = t
  /\ Step(t, AfterCall(task[t].at))
  /\ UNCHANGED << sc, store, ks >>
  /\ UNCHANGED lvars

ble_hs_unlock(t) ==
  /\ task[t].at \in {"pk_unlock", "dh_unlock"}
  /\ mutex' = "none"
  /\ Step(t, AfterCall(task[t].at))
  /\ UNCHANGED << sc, store, ks >>
  /\ UNCHANGED lvars

(* ble_sm_sc_public_key_rx, statement by statement *)

\* os_mbuf pullup
PkPullup(t) ==
  /\ task[t].at = "pk_pullup"
  /\ \/ Step(t, "pk_ensure")
     \/ Return(t, ble_sm_sc_public_key_rx(Cur(t), sc, Me(Cur(t)),
                                          task[t].cmd, "pullup").res)
  /\ UNCHANGED << sc, mutex, store, ks >>
  /\ UNCHANGED lvars

\* ble_sm_sc_ensure_keys_generated reads ble_sm_sc_keys_generated
PkEnsure(t) ==
  /\ task[t].at = "pk_ensure"
  /\ IF ble_sm_sc_ensure_keys_generated(sc, Me(Cur(t)), "none").keys = sc
       THEN Step(t, "pk_lock")
       ELSE Step(t, "pk_gen")
  /\ UNCHANGED << sc, mutex, store, ks >>
  /\ UNCHANGED lvars

\* ble_sm_gen_pub_priv writes the two key buffers
PkGen(t) ==
  /\ task[t].at = "pk_gen"
  /\ \E f \in {"none"} \cup KeygenFaults :
       LET e == ble_sm_sc_ensure_keys_generated(sc, Me(Cur(t)), f)
       IN /\ sc' = [e.keys EXCEPT !.generated = sc.generated]
          /\ ks' = [ks EXCEPT !.nok = @ + NewPair(e.keys)]
          /\ IF e.rc # OK
               THEN Return(t, ErrRes(e.rc, BLE_SM_ERR_UNSPECIFIED))
               ELSE task' = [task EXCEPT ![t].at = "pk_flag",
                                         ![t].flagval = e.keys.generated]
  /\ UNCHANGED << mutex, store >>
  /\ UNCHANGED lvars

\* ble_sm_sc_keys_generated = 1
PkFlag(t) ==
  /\ task[t].at = "pk_flag"
  /\ sc' = [sc EXCEPT !.generated = task[t].flagval]
  /\ Step(t, "pk_lock")
  /\ UNCHANGED << mutex, store, ks >>
  /\ UNCHANGED lvars

\* ble_sm_proc_find and what follows it, up to the last write
PkBody(t) ==
  /\ task[t].at = "pk_body"
  /\ LET r == ble_sm_sc_public_key_rx(Cur(t), sc, Me(Cur(t)),
                                      task[t].cmd, "none")
     IN /\ store' = [store EXCEPT ![Slot(t)] = r.proc]
        /\ sc' = r.keys
        /\ ks' = [ks EXCEPT
                    !.used = IF r.proc.dhkey # Cur(t).dhkey
                               THEN @ \cup {r.keys.priv} ELSE @,
                    !.nok = @ + NewPair(r.keys)]
        /\ task' = [task EXCEPT ![t].at = "pk_unlock", ![t].res = r.res]
  /\ UNCHANGED mutex
  /\ UNCHANGED lvars

(* ble_sm_sc_dhkey_check_rx, statement by statement *)

\* os_mbuf pullup and ble_sm_dhkey_check_parse
DhPullup(t) ==
  /\ task[t].at = "dh_pullup"
  /\ \/ Step(t, "dh_lock")
     \/ Return(t, ble_sm_sc_dhkey_check_rx(Cur(t), task[t].cmd, "pullup").res)
  /\ UNCHANGED << sc, mutex, store, ks >>
  /\ UNCHANGED lvars

\* ble_sm_proc_find and ble_sm_dhkey_check_process
DhBody(t) ==
  /\ task[t].at = "dh_body"
  /\ \E f \in {"none", "f6"} :
       LET r == ble_sm_sc_dhkey_check_rx(Cur(t), task[t].cmd, f)
       IN /\ store' = [store EXCEPT ![Slot(t)] = r.proc]
          /\ task' = [task EXCEPT
                        ![t].at = ble_sm_sc_dhkey_check_rx_exit(
                                    ble_sm_proc_find(Cur(t), STATE_DHKEY_CHECK)),
                        ![t].res = r.res]
  /\ UNCHANGED << sc, mutex, ks >>
  /\ UNCHANGED lvars

(* ble_sm_inject_io on the application task *)

AppInject(c) ==
  /\ task["app"].at = "idle"
  /\ \E io \in HostIoAnswers :
       /\ store[c].present
       /\ io.action = ble_sm_sc_passkey_action(store[c]).action
       /\ task' = [task EXCEPT !["app"] =
                     [TaskIdle EXCEPT !.at = "io_lock", !.conn = c, !.io = io]]
  /\ UNCHANGED << sc, mutex, store, ks >>
  /\ UNCHANGED lvars

\* ble_sm_proc_find, the writes to the procedure, and ble_hs_unlock
IoBody(t) ==
  /\ task[t].at = "io_body"
  /\ IF InjectAccepted(Cur(t), task[t].io.action)
       THEN LET r == ble_sm_inject_io(Cur(t), task[t].io)
            IN /\ store' = [store EXCEPT ![Slot(t)] = r.proc]
               /\ task' = [task EXCEPT ![t].at = "pr_lock", ![t].res = r.res]
       ELSE /\ store' = store
            /\ task' = [task EXCEPT ![t] = TaskIdle]
  /\ mutex' = "none"
  /\ UNCHANGED << sc, ks >>
  /\ UNCHANGED lvars

(* ble_sm_process_result: the loop that follows every step *)

\* ble_sm_exec: the state function of the procedure's state
ble_sm_exec(p, k, f) ==
  CASE p.state = STATE_PUBLIC_KEY -> ble_sm_sc_public_key_go(p, k, f)
    [] p.state = STATE_CONFIRM ->
         LET r == ble_sm_sc_confirm_go(p, k, f, 0)
         IN [proc |-> r.proc, keys |-> k, out |-> r.out, res |-> r.res]
    [] p.state = STATE_DHKEY_CHECK ->
         LET r == ble_sm_sc_dhkey_check_go(p, f)
         IN [proc |-> r.proc, keys |-> k, out |-> r.out, res |-> r.res]
    [] OTHER -> [proc |-> p, keys |-> k, out |-> << >>, res |-> ZeroRes]

\* the public keys a step sends, and the public key it feeds to f4
SentKeys(out) ==
  {out[i].value : i \in {j \in DOMAIN out : out[j].type = "PublicKey"}}
ConfirmKeys(out, k) ==
  IF \E i \in DOMAIN out : out[i].type = "PairingConfirm" THEN {k.pub} ELSE {}

\* one iteration of the loop from ble_sm_proc_find to ble_hs_unlock; the
\* loop goes on while the state function asks for the next one
PrBody(t) ==
  /\ task[t].at = "pr_body"
  /\ IF ~Cur(t).present
       THEN /\ task' = [task EXCEPT ![t] = TaskIdle]
            /\ UNCHANGED << sc, store, ks >>
       ELSE \E f \in {"none", "tx"} \cup
                     (IF Cur(t).state = STATE_PUBLIC_KEY
                        THEN KeygenFaults ELSE {}) :
              LET e == IF task[t].res.execute
                         THEN ble_sm_exec(Cur(t), sc, f)
                         ELSE [proc |-> Cur(t), keys |-> sc, out |-> << >>,
                               res |-> task[t].res]
                  rm == ResultRemoves(e.proc, e.res)
              IN /\ store' = [store EXCEPT ![Slot(t)] =
                                IF rm THEN NoProc ELSE e.proc]
                 /\ sc' = e.keys
                 /\ ks' = [ks EXCEPT
                             !.sent = @ \cup SentKeys(e.out),
                             !.used = @ \cup ConfirmKeys(e.out, e.keys),
                             !.nok = @ + NewPair(e.keys)]
                 /\ task' = [task EXCEPT ![t] =
                               IF ~rm /\ e.res.execute
                                 THEN [@ EXCEPT !.at = "pr_lock", !.res = e.res]
                                 ELSE TaskIdle]
  /\ mutex' = "none"
  /\ UNCHANGED lvars

\* the two ends of the single connection of Spec stay as they are
InitHost ==
  /\ HostInit
  /\ proc = [d \in Roles |-> NoProc]
  /\ keys = [d \in Roles |-> NoKeyPair]
  /\ res = [d \in Roles |-> ZeroRes]
  /\ pc = [d \in Roles |-> "idle"]
  /\ chan = [d \in Roles |-> << >>]
  /\ hist = [d \in Roles |-> NoHist]
  /\ altered = FALSE

NextHost ==
  \/ \E c \in Conns : StartSc(c) \/ HostRx(c) \/ Progress(c) \/ AppInject(c)
  \/ \E t \in Tasks :
       \/ ble_hs_lock(t) \/ ble_hs_unlock(t)
       \/ PkPullup(t) \/ PkEnsure(t) \/ PkGen(t) \/ PkFlag(t) \/ PkBody(t)
       \/ DhPullup(t) \/ DhBody(t)
       \/ IoBody(t)
       \/ PrBody(t)

SpecHost == InitHost /\ [][NextHost]_vars

----------------------------------------------------------------------------
(* The capability resolver on its own: every pairing request and response,  *)
(* each role resolving once.                                                *)

ProcBeforeResolve(d, req, rsp) ==
  [NoProc EXCEPT
     !.present = TRUE, !.state = "PAIR",
     !.flags = IF d = "I" THEN {F_SC, F_INITIATOR} ELSE {F_SC},
     !.pair_req = req, !.pair_rsp = rsp]

InitPka ==
  /\ \E req \in PairCmds, rsp \in PairCmds :
       proc = [d \in Roles |-> ProcBeforeResolve(d, req, rsp)]
  /\ keys = [d \in Roles |-> NoKeyPair]
  /\ res = [d \in Roles |-> ZeroRes]
  /\ pc = [d \in Roles |-> "idle"]
  /\ chan = [d \in Roles |-> << >>]
  /\ hist = [d \in Roles |-> NoHist]
  /\ altered = FALSE
  /\ HostInit

Resolve(d) ==
  /\ pc[d] = "idle"
  /\ LET r == ble_sm_sc_passkey_action(proc[d])
     IN /\ proc' = [proc EXCEPT ![d] = r.proc]
        /\ res' = [res EXCEPT ![d].pkact = r.action]
  /\ pc' = [pc EXCEPT ![d] = "resolved"]
  /\ hist' = [hist EXCEPT ![d].op = "passkey_action"]
  /\ UNCHANGED << keys, chan, altered >>
  /\ UNCHANGED hvars

NextPka == \E d \in Roles : Resolve(d)

SpecPka == InitPka /\ [][NextPka]_vars

----------------------------------------------------------------------------
(* The host's event loop: producers in other tasks, the parent task running *)
(* ble_hs_event_handle one loop iteration at a time                         *)

\* the transport takes buffer b from its pool, fills it with an HCI event
\* and hands it to the host
HciEvtRx(b) ==
  /\ ~hs.crashed
  /\ hs.buf[b] = "free"
  /\ \E trap \in BOOLEAN, x \in 0..NumBufs :
       hs' = ble_hs_enqueue_hci_event([hs EXCEPT !.buf[b] = "held"], b,
                                      trap, x)
  /\ UNCHANGED smvars

\* ble_hs_notifications_sched
NotificationsSched ==
  /\ ~hs.crashed
  /\ hs' = ble_hs_event_enqueue(hs, ble_hs_event_tx_notifications)
  /\ UNCHANGED smvars

RxData ==
  /\ ~hs.crashed
  /\ hs.rx_q < MaxData
  /\ \E pkthdr \in BOOLEAN : hs' = ble_hs_rx_data(hs, pkthdr)
  /\ UNCHANGED smvars

TxData ==
  /\ ~hs.crashed
  /\ hs.tx_q < MaxData
  /\ \E pkthdr \in BOOLEAN : hs' = ble_hs_tx_data(hs, pkthdr)
  /\ UNCHANGED smvars

\* the parent task services its queue
ParentGet ==
  /\ ~hs.crashed
  /\ hs.co_queued /\ hs.at = "idle"
  /\ hs' = ble_hs_event_handle_enter(hs)
  /\ UNCHANGED smvars

HandleIter ==
  /\ ~hs.crashed
  /\ hs.at = "loop"
  /\ hs' = ble_hs_event_handle_iter(hs)
  /\ UNCHANGED smvars

NextEv ==
  \/ \E b \in Bufs : HciEvtRx(b)
  \/ NotificationsSched
  \/ RxData
  \/ TxData
  \/ ParentGet
  \/ HandleIter

SpecEv == InitHost /\ [][NextEv]_vars

\* the parent task keeps servicing its queue and running the handler
SpecEvFair == SpecEv /\ WF_vars(ParentGet) /\ WF_vars(HandleIter)

----------------------------------------------------------------------------
(* The heartbeat timer                                                      *)

\* what a module's heartbeat function may ask for
SchedVals == {1, 3, BLE_HS_FOREVER}

HsStart ==
  /\ ~hs.started
  /\ \E ok \in BOOLEAN : hs' = ble_hs_start(hs, ok)
  /\ UNCHANGED smvars

\* the OS clock advances; a callout whose time has come is taken off the
\* timer list and its event is put on the parent task's queue
Tick ==
  /\ hs.started
  /\ hs.now < MaxNow
  /\ hs' = IF hs.hb_queued /\ ~OS_TIME_TICK_LT(hs.now + 1, hs.c_ticks)
             THEN [hs EXCEPT !.now = @ + 1, !.hb_queued = FALSE,
                             !.hb_pending = TRUE]
             ELSE [hs EXCEPT !.now = @ + 1]
  /\ UNCHANGED smvars

\* the parent task takes the timer's event and calls ble_hs_heartbeat
Heartbeat ==
  /\ hs.hb_pending
  /\ \E ok \in BOOLEAN, t \in [1..4 -> SchedVals] :
       hs' = ble_hs_heartbeat([hs EXCEPT !.hb_pending = FALSE], ok, t)
  /\ UNCHANGED smvars

\* a module asks for an earlier heartbeat
HeartbeatSched ==
  /\ hs.started
  /\ \E t \in SchedVals : hs' = ble_hs_heartbeat_sched(hs, t)
  /\ UNCHANGED smvars

NextHb ==
  \/ HsStart
  \/ Tick
  \/ Heartbeat
  \/ HeartbeatSched

SpecHb == InitHost /\ [][NextHb]_vars

----------------------------------------------------------------------------
(* Properties *)

\* device d has just run step `op`; its Result has not been processed yet
After(d, op) == pc[d] = "settle" /\ hist[d].op = op

\* C1: whatever the IO capabilities, the MITM flags and the OOB flags, the
\* initiator's run and the responder's run of ble_sm_sc_passkey_action on the
\* same pairing request and response choose the same pairing algorithm.
C1_SameMethod ==
  (pc["I"] = "resolved" /\ pc["R"] = "resolved")
    => proc["I"].pair_alg = proc["R"].pair_alg

\* the states in which the derived LTK is put to use
KeyInUse(p) == p.state \in {STATE_ENC_START, STATE_LTK_START}

\* C2 as stated: the LTK is marked valid in the procedure's key material only
\* after the peer's DHKey check has compared equal to the expected value.
C2_LtkOnlyAfterDhkeyCheck ==
  \A d \in Roles :
    (proc[d].our_keys.ltk_valid \/ proc[d].peer_keys.ltk_valid)
      => hist[d].dhkey_ok

\* C2 amended: ble_sm_sc_random_rx marks the LTK valid as soon as f5 has
\* succeeded, before the DHKey check; but a procedure reaches ENC_START or
\* LTK_START, where the LTK is put to use, only with a valid LTK and after the
\* peer's DHKey check has compared equal to the expected value.
C2_KeyInUseOnlyAfterDhkeyCheck ==
  \A d \in Roles :
    /\ (proc[d].present /\ KeyInUse(proc[d]))
         => /\ hist[d].dhkey_ok
            /\ proc[d].our_keys = [ltk_valid |-> TRUE, ltk |-> proc[d].ltk]
            /\ proc[d].peer_keys = proc[d].our_keys
    /\ proc[d].our_keys.ltk_valid
         => proc[d].state \notin {STATE_PUBLIC_KEY, STATE_NONE}

C2_Witness ==
  /\ proc["I"].state = STATE_ENC_START
  /\ proc["R"].state = STATE_LTK_START
  /\ hist["I"].dhkey_ok /\ hist["R"].dhkey_ok
  /\ proc["I"].our_keys.ltk_valid
  /\ proc["I"].ltk = proc["R"].ltk

\* ble_sm_sc_random_rx has found the procedure and run on it
RandomRxRan(d) == After(d, "random_rx") /\ res[d].app_status # BLE_HS_ENOENT

CheckedMethods == {ALG_PASSKEY, ALG_OOB}

\* C3 as stated: on a received PairingRandom the responder always checks the
\* peer's confirm value, the initiator only for PasskeyEntry and OutOfBand.
C3_ResponderAlwaysVerifies ==
  \A d \in Roles :
    RandomRxRan(d)
      => (hist[d].verified <=>
            (d = "R" \/ proc[d].pair_alg \in CheckedMethods))

\* C3 amended: on a received PairingRandom the initiator always recomputes and
\* checks the peer's confirm value, whatever the method; the responder checks
\* only for PasskeyEntry and OutOfBand and skips the check for JustWorks and
\* NumericComparison, so only a checking role can end in ConfirmMismatch.
C3_InitiatorAlwaysVerifies ==
  \A d \in Roles :
    RandomRxRan(d)
      => /\ hist[d].verified <=>
              (d = "I" \/ proc[d].pair_alg \in CheckedMethods)
         /\ res[d].app_status = US_ERR_CONFIRM_MISMATCH
              => (d = "I" \/ proc[d].pair_alg \in CheckedMethods)
         /\ (hist[d].rx_corrupt /\ res[d].app_status = OK)
              => (d = "R" /\ proc[d].pair_alg \notin CheckedMethods)

\* a JustWorks responder has accepted an altered nonce unchecked and derived
\* keys; the initiator then checks the responder's confirm value
C3_Witness ==
  /\ RandomRxRan("I")
  /\ proc["I"].pair_alg = ALG_JW
  /\ hist["I"].verified /\ res["I"].app_status = OK
  /\ hist["R"].op = "random_go"
  /\ hist["R"].rx_corrupt /\ ~hist["R"].verified
  /\ proc["R"].our_keys.ltk_valid

\* C4 as stated: for either role and any method, a received PairingRandom
\* that is not the nonce the peer sent ends the step with ConfirmMismatch,
\* enc_cb set and execute clear, and no LTK exists in the procedure afterwards
\* (a failure of f4 or f5 itself set aside).
C4_AnyAlteredRandomIsMismatch ==
  \A d \in Roles :
    (RandomRxRan(d) /\ hist[d].rx_corrupt /\ res[d].app_status # RC_FAIL)
      => /\ res[d].app_status = US_ERR_CONFIRM_MISMATCH
         /\ res[d].enc_cb /\ ~res[d].execute
         /\ ~proc[d].our_keys.ltk_valid /\ ~proc[d].peer_keys.ltk_valid

\* device d takes the step ble_sm_random_rx on its procedure
RandomRxStep(d) ==
  /\ pc[d] = "idle" /\ pc'[d] = "settle" /\ hist'[d].op = "random_rx"
  /\ ble_sm_proc_find(proc[d], STATE_RANDOM)

\* C4 amended: for a role that checks (the initiator with any method, the
\* responder with PasskeyEntry or OutOfBand), a received PairingRandom that is
\* not the nonce the peer sent ends the step with ConfirmMismatch, enc_cb set
\* and execute clear (f4 itself not failing); the step derives no key
\* material, so the MAC key, the LTK and both key records are left as they
\* were (an LTK of an earlier PasskeyEntry round stays until the procedure is
\* removed), and processing the Result removes the procedure.
C4_CheckedAlteredRandomIsMismatch ==
  [][\A d \in Roles :
       /\ ( /\ RandomRxStep(d)
            /\ hist'[d].rx_corrupt
            /\ (d = "I" \/ proc[d].pair_alg \in CheckedMethods)
            /\ res'[d].app_status # RC_FAIL )
            => /\ res'[d].app_status = US_ERR_CONFIRM_MISMATCH
               /\ res'[d].enc_cb /\ ~res'[d].execute
               /\ proc'[d].mackey = proc[d].mackey
               /\ proc'[d].ltk = proc[d].ltk
               /\ proc'[d].our_keys = proc[d].our_keys
               /\ proc'[d].peer_keys = proc[d].peer_keys
               /\ proc'[d].state = proc[d].state
       /\ ( /\ pc[d] = "settle" /\ pc'[d] # "settle"
            /\ res[d].app_status = US_ERR_CONFIRM_MISMATCH )
            => (~proc'[d].present /\ pc'[d] = "idle")
  ]_vars

\* an altered nonce is refused in a PasskeyEntry round after the first one
C4_Witness ==
  /\ RandomRxRan("I")
  /\ hist["I"].rx_corrupt
  /\ proc["I"].pair_alg = ALG_PASSKEY
  /\ res["I"].app_status = US_ERR_CONFIRM_MISMATCH
  /\ proc["I"].our_keys.ltk_valid
  /\ proc["I"].passkey_bits_exchanged = 2

\* device d takes the step ble_sm_sc_dhkey_check_rx on its procedure
DhkeyCheckRxStep(d) ==
  /\ pc[d] = "idle" /\ pc'[d] = "settle" /\ hist'[d].op = "dhkey_check_rx"
  /\ ble_sm_proc_find(proc[d], STATE_DHKEY_CHECK)

\* C5: a DHKey check value received in state DHKeyCheck that differs from the
\* expected f6 value makes the step report DHKeyCheckFailed with enc_cb set
\* and execute clear (no collaborator failing); it sets no ADVANCE_ON_IO flag
\* and does not move the procedure to EncryptionStart: the procedure is left
\* as it was and is removed when the Result is processed.
C5_DhkeyCheckMismatch ==
  [][\A d \in Roles :
       /\ ( /\ DhkeyCheckRxStep(d)
            /\ Head(chan[d]).value # DhkeyCheckExpected(proc[d])
            /\ res'[d].app_status # RC_FAIL )
            => /\ res'[d].app_status = US_ERR_DHKEY
               /\ res'[d].sm_err = BLE_SM_ERR_DHKEY
               /\ res'[d].enc_cb /\ ~res'[d].execute
               /\ proc'[d] = proc[d]
               /\ proc'[d].state # STATE_ENC_START
       /\ ( /\ pc[d] = "settle" /\ pc'[d] # "settle"
            /\ res[d].app_status = US_ERR_DHKEY )
            => (~proc'[d].present /\ pc'[d] = "idle")
  ]_vars

\* an altered DHKey check has been refused by the initiator after it had
\* answered the numeric comparison
C5_Witness ==
  /\ After("I", "dhkey_check_rx")
  /\ hist["I"].rx_corrupt
  /\ res["I"].app_status = US_ERR_DHKEY
  /\ proc["I"].state = STATE_DHKEY_CHECK
  /\ proc["I"].pair_alg = ALG_NUMCMP
  /\ F_ADVANCE_ON_IO \notin proc["I"].flags

\* C6: with PasskeyEntry a procedure of either role runs exactly 20
\* Confirm/Random rounds before its state becomes DHKeyCheck:
\* passkey_bits_exchanged goes up by exactly 1 in each run of
\* ble_sm_sc_confirm_go (by ble_sm_sc_gen_ri) and in no other step, is 20 when
\* the state first becomes DHKeyCheck, by when 20 confirm values and 20 nonces
\* have been sent, and never exceeds 20.
C6_TwentyPasskeyRounds ==
  [][\A d \in Roles :
       (proc[d].present /\ proc'[d].present
        /\ proc[d].pair_alg = ALG_PASSKEY)
         => /\ proc'[d].passkey_bits_exchanged =
                 proc[d].passkey_bits_exchanged
                   + (hist'[d].nconfirm_go - hist[d].nconfirm_go)
            /\ hist'[d].nconfirm_go - hist[d].nconfirm_go \in {0, 1}
            /\ proc'[d].passkey_bits_exchanged = hist'[d].nconfirm_go
            /\ proc'[d].passkey_bits_exchanged <= BLE_SM_SC_PASSKEY_BITS
            /\ (proc'[d].state = STATE_DHKEY_CHECK
                /\ proc[d].state # STATE_DHKEY_CHECK)
                 => /\ proc'[d].passkey_bits_exchanged = BLE_SM_SC_PASSKEY_BITS
                    /\ hist'[d].nconfirm_tx = BLE_SM_SC_PASSKEY_BITS
                    /\ hist'[d].nrandom_tx = BLE_SM_SC_PASSKEY_BITS
  ]_vars

C6_Witness ==
  \A d \in Roles :
    /\ proc[d].present
    /\ proc[d].pair_alg = ALG_PASSKEY
    /\ proc[d].state = STATE_DHKEY_CHECK
    /\ proc[d].passkey_bits_exchanged = BLE_SM_SC_PASSKEY_BITS
    /\ hist[d].nconfirm_tx = BLE_SM_SC_PASSKEY_BITS

\* C7: with JustWorks or NumericComparison the initiator never runs
\* ble_sm_sc_confirm_go and never transmits a PairingConfirm.
C7_InitiatorSendsNoConfirm ==
  (proc["I"].present /\ proc["I"].pair_alg \in {ALG_JW, ALG_NUMCMP})
    => /\ hist["I"].nconfirm_go = 0
       /\ hist["I"].nconfirm_tx = 0
       /\ After("I", "public_key_rx") => ~res["I"].execute

\* a JustWorks initiator has finished the exchange without sending a confirm
C7_Witness ==
  /\ proc["I"].present
  /\ proc["I"].pair_alg = ALG_JW
  /\ proc["I"].state = STATE_ENC_START
  /\ hist["I"].nconfirm_tx = 0
  /\ hist["R"].nconfirm_tx = 1

\* position of a state in the order of normal progression; LTK_START is the
\* responder's state after its DHKey check
StateRank(st) ==
  CASE st = STATE_PUBLIC_KEY -> 0
    [] st = STATE_CONFIRM -> 1
    [] st = STATE_RANDOM -> 2
    [] st = STATE_DHKEY_CHECK -> 3
    [] st \in {STATE_ENC_START, STATE_LTK_START} -> 4

\* C8 as stated: no step assigns a procedure a state that is earlier in the
\* order PublicKeyExchange, Confirm, Random, DHKeyCheck, EncryptionStart than
\* its current state.
C8_StateNeverRegresses ==
  [][\A d \in Roles :
       (proc[d].present /\ proc'[d].present)
         => StateRank(proc'[d].state) >= StateRank(proc[d].state)
  ]_vars

\* C8 amended: a procedure's state moves forward along PublicKeyExchange,
\* Confirm, Random, DHKeyCheck, EncryptionStart, with one exception: in
\* PasskeyEntry, ble_sm_sc_random_advance (from ble_sm_sc_random_rx for the
\* initiator, ble_sm_sc_random_go for the responder) takes it back from Random
\* to Confirm while fewer than 20 passkey bits have been exchanged.
C8_StateRegressesOnlyInPasskeyLoop ==
  [][\A d \in Roles :
       (proc[d].present /\ proc'[d].present
        /\ StateRank(proc'[d].state) < StateRank(proc[d].state))
         => /\ proc[d].state = STATE_RANDOM
            /\ proc'[d].state = STATE_CONFIRM
            /\ proc[d].pair_alg = ALG_PASSKEY
            /\ proc'[d].passkey_bits_exchanged < BLE_SM_SC_PASSKEY_BITS
            /\ hist'[d].op = IF d = "I" THEN "random_rx" ELSE "random_go"
  ]_vars

\* both sides have gone back to Confirm for the last PasskeyEntry round
C8_Witness ==
  \A d \in Roles :
    /\ proc[d].present
    /\ proc[d].pair_alg = ALG_PASSKEY
    /\ proc[d].state = STATE_CONFIRM
    /\ proc[d].passkey_bits_exchanged = BLE_SM_SC_PASSKEY_BITS - 1
    /\ hist[d].nrandom_tx = BLE_SM_SC_PASSKEY_BITS - 1

\* C9: in NumericComparison, as long as the application has not answered
\* (IO_INJECTED clear), a procedure has sent no DHKey check and is neither in
\* EncryptionStart nor in LTK_START; the step that computes the comparison
\* value (ble_sm_sc_random_rx for the initiator, ble_sm_sc_random_go for the
\* responder) returns the NUMCMP action with the g2 value and leaves execute
\* clear.
C9_NumcmpSuspends ==
  \A d \in Roles :
    (proc[d].present /\ proc[d].pair_alg = ALG_NUMCMP
     /\ F_IO_INJECTED \notin proc[d].flags)
      => /\ hist[d].ndhkey_tx = 0
         /\ ~KeyInUse(proc[d])
         /\ ( /\ After(d, IF d = "I" THEN "random_rx" ELSE "random_go")
              /\ res[d].app_status = OK )
              => /\ res[d].pkact = PKACT_NUMCMP
                 /\ ~res[d].execute
                 /\ proc[d].state = STATE_DHKEY_CHECK
                 /\ res[d].numcmp =
                      ble_sm_alg_g2(KeyOf("I"), KeyOf("R"),
                                    proc[d].randm, proc[d].rands)

\* the responder holds the initiator's verified DHKey check and still waits
\* for its own user's answer
C9_Witness ==
  /\ proc["R"].present /\ proc["R"].pair_alg = ALG_NUMCMP
  /\ proc["R"].state = STATE_DHKEY_CHECK
  /\ F_ADVANCE_ON_IO \in proc["R"].flags
  /\ F_IO_INJECTED \notin proc["R"].flags
  /\ hist["R"].dhkey_ok /\ hist["R"].ndhkey_tx = 0
  /\ pc["R"] = "idle"
  /\ F_IO_INJECTED \in proc["I"].flags /\ hist["I"].ndhkey_tx = 1

\* C10: at a Confirm-state user-interaction point (PasskeyEntry, OutOfBand),
\* as long as the application has not supplied the value (IO_INJECTED clear) a
\* procedure has run no ble_sm_sc_confirm_go and sent no PairingConfirm, and
\* ble_sm_sc_public_key_rx and ble_sm_sc_public_key_go leave execute clear
\* whenever ble_sm_proc_can_advance is false.
C10_ConfirmWaitsForIo ==
  \A d \in Roles :
    /\ (proc[d].present /\ proc[d].pair_alg \in CheckedMethods
        /\ F_IO_INJECTED \notin proc[d].flags)
         => (hist[d].nconfirm_go = 0 /\ hist[d].nconfirm_tx = 0)
    /\ ( /\ After(d, "public_key_rx") \/ After(d, "public_key_go")
         /\ proc[d].present
         /\ ~ble_sm_proc_can_advance(proc[d]) )
         => ~res[d].execute

\* the responder holds the initiator's confirm value and still waits for its
\* own passkey
C10_Witness ==
  /\ proc["R"].present /\ proc["R"].pair_alg = ALG_PASSKEY
  /\ proc["R"].state = STATE_CONFIRM
  /\ F_ADVANCE_ON_IO \in proc["R"].flags
  /\ F_IO_INJECTED \notin proc["R"].flags
  /\ proc["R"].confirm_peer # << >>
  /\ hist["R"].nconfirm_tx = 0
  /\ pc["R"] = "idle"

----------------------------------------------------------------------------
\* C11: only a procedure with the initiator flag is ever assigned ENC_START,
\* and only by ble_sm_dhkey_check_process after the peer's DHKey check has
\* compared equal with ble_sm_proc_can_advance true; a responder procedure is
\* never in ENC_START and is assigned LTK_START only by
\* ble_sm_sc_dhkey_check_go, in the step that transmits its own DHKey check.
C11_OnlyInitiatorEncStart ==
  [][\A d \in Roles :
       /\ proc'["R"].state # STATE_ENC_START
       /\ proc'["I"].state # STATE_LTK_START
       /\ (proc'[d].state = STATE_ENC_START /\ proc[d].state # STATE_ENC_START)
            => /\ d = "I" /\ F_INITIATOR \in proc[d].flags
               /\ DhkeyCheckRxStep(d)
               /\ hist'[d].dhkey_ok
               /\ ble_sm_proc_can_advance(proc'[d])
               /\ res'[d].execute
       /\ (proc'[d].state = STATE_LTK_START /\ proc[d].state # STATE_LTK_START)
            => /\ d = "R" /\ F_INITIATOR \notin proc[d].flags
               /\ proc[d].state = STATE_DHKEY_CHECK
               /\ hist'[d].op = "dhkey_check_go"
               /\ hist'[d].ndhkey_tx = hist[d].ndhkey_tx + 1
  ]_vars

\* NumericComparison has run to its end: the initiator is in ENC_START, the
\* responder in LTK_START, both after the application's answer
C11_Witness ==
  /\ proc["I"].state = STATE_ENC_START
  /\ proc["R"].state = STATE_LTK_START
  /\ proc["I"].pair_alg = ALG_NUMCMP
  /\ F_IO_INJECTED \in proc["I"].flags
  /\ F_IO_INJECTED \in proc["R"].flags
  /\ hist["R"].ndhkey_tx = 1

----------------------------------------------------------------------------
\* device d takes a step that computes an f4 confirm value:
\* ble_sm_sc_confirm_go, or ble_sm_sc_random_rx when it checks
ComputesF4(d) ==
  \/ hist'[d].nconfirm_go = hist[d].nconfirm_go + 1
  \/ RandomRxStep(d) /\ hist'[d].verified

\* C12: pub_key_peer of a procedure is assigned once: it changes only in a
\* ble_sm_sc_public_key_rx step that finds the procedure in state PublicKey
\* with no peer key stored and no f4 value computed so far (or when the
\* procedure is removed); every step that computes an f4 confirm value finds
\* a valid peer key stored, and a PublicKey message arriving later leaves the
\* stored key as it is.
C12_PeerKeySetOnce ==
  [][\A d \in Roles :
       /\ (proc'[d].pub_key_peer # proc[d].pub_key_peer)
            => \/ ~proc'[d].present
               \/ /\ proc[d].pub_key_peer = 0
                  /\ proc[d].dhkey = << >>
                  /\ hist'[d].op = "public_key_rx"
                  /\ proc[d].state = STATE_PUBLIC_KEY
                  /\ hist[d].nconfirm_go = 0
                  /\ ~hist[d].verified
       /\ ComputesF4(d) => proc[d].pub_key_peer \in ValidKeys
       /\ ( /\ pc[d] = "idle" /\ pc'[d] = "settle"
            /\ hist'[d].op = "public_key_rx"
            /\ proc[d].pub_key_peer # 0 )
            => /\ proc'[d] = proc[d]
               /\ res'[d].app_status # OK
               /\ ~res'[d].execute
  ]_vars

\* an unsolicited PublicKey message has reached a procedure that already holds
\* the peer's key and has sent its confirm value: it is refused
C12_Witness ==
  /\ After("R", "public_key_rx")
  /\ hist["R"].rx_corrupt
  /\ res["R"].app_status = BLE_HS_ENOENT
  /\ proc["R"].present
  /\ proc["R"].pub_key_peer = KeyOf("I")
  /\ hist["R"].nconfirm_go = 1

----------------------------------------------------------------------------
\* device d has run ble_sm_sc_passkey_action on a procedure that had no
\* method and no authenticated flag
Resolved(d) == pc[d] = "resolved"

\* C13: if the pairing request or the pairing response has the OOB flag set,
\* ble_sm_sc_passkey_action returns the OOB action and sets the algorithm to
\* OutOfBand, whatever the IO capabilities, the MITM bits and the role.
C13_OobFlagGivesOob ==
  \A d \in Roles :
    ( /\ Resolved(d)
      /\ (proc[d].pair_req.oob_data_flag \/ proc[d].pair_rsp.oob_data_flag) )
      => /\ res[d].pkact = PKACT_OOB
         /\ proc[d].pair_alg = ALG_OOB

\* only the response has the OOB flag, no MITM bit is set, and the table
\* cell of the IO capabilities holds NumericComparison: both ends chose OOB
C13_Witness ==
  /\ Resolved("I") /\ Resolved("R")
  /\ ~proc["I"].pair_req.oob_data_flag /\ proc["I"].pair_rsp.oob_data_flag
  /\ AUTHREQ_MITM \notin proc["I"].pair_req.authreq
  /\ AUTHREQ_MITM \notin proc["I"].pair_rsp.authreq
  /\ proc["I"].pair_req.io_cap = 1 /\ proc["I"].pair_rsp.io_cap = 1
  /\ proc["I"].pair_alg = ALG_OOB /\ proc["R"].pair_alg = ALG_OOB

\* C14: with no OOB flag and the MITM bit in neither the pairing request nor
\* the pairing response, ble_sm_sc_passkey_action returns action None and
\* sets the algorithm to JustWorks for all IO capabilities and both roles.
C14_NoMitmGivesJustWorks ==
  \A d \in Roles :
    ( /\ Resolved(d)
      /\ ~proc[d].pair_req.oob_data_flag /\ ~proc[d].pair_rsp.oob_data_flag
      /\ AUTHREQ_MITM \notin proc[d].pair_req.authreq
      /\ AUTHREQ_MITM \notin proc[d].pair_rsp.authreq )
      => /\ res[d].pkact = PKACT_NONE
         /\ proc[d].pair_alg = ALG_JW

\* no MITM bit, no OOB flag, IO capabilities whose table cell holds
\* NumericComparison: both ends chose JustWorks
C14_Witness ==
  /\ Resolved("I") /\ Resolved("R")
  /\ ~proc["R"].pair_req.oob_data_flag /\ ~proc["R"].pair_rsp.oob_data_flag
  /\ AUTHREQ_MITM \notin proc["R"].pair_req.authreq
  /\ AUTHREQ_MITM \notin proc["R"].pair_rsp.authreq
  /\ proc["R"].pair_req.io_cap = 4 /\ proc["R"].pair_rsp.io_cap = 4
  /\ proc["I"].pair_alg = ALG_JW /\ proc["R"].pair_alg = ALG_JW

\* C15: the algorithm follows from the returned action (None: JustWorks,
\* Input and Display: PasskeyEntry, NumericComparison: NumericComparison,
\* OOB: OutOfBand); on a procedure whose authenticated flag was clear the flag
\* is set afterwards exactly when the algorithm is not JustWorks, and the
\* other flags are as before.
C15_ActionGivesMethodAndFlag ==
  \A d \in Roles :
    Resolved(d)
      => /\ res[d].pkact = PKACT_NONE => proc[d].pair_alg = ALG_JW
         /\ res[d].pkact \in {PKACT_INPUT, PKACT_DISP}
              => proc[d].pair_alg = ALG_PASSKEY
         /\ res[d].pkact = PKACT_NUMCMP => proc[d].pair_alg = ALG_NUMCMP
         /\ res[d].pkact = PKACT_OOB => proc[d].pair_alg = ALG_OOB
         /\ res[d].pkact \in {PKACT_NONE, PKACT_INPUT, PKACT_DISP,
                              PKACT_NUMCMP, PKACT_OOB}
         /\ (F_AUTHENTICATED \in proc[d].flags) <=> (proc[d].pair_alg # ALG_JW)
         /\ proc[d].flags \ {F_AUTHENTICATED} =
              IF d = "I" THEN {F_SC, F_INITIATOR} ELSE {F_SC}

\* the initiator resolved Display, the responder Input: both PasskeyEntry and
\* authenticated
C15_Witness ==
  /\ Resolved("I") /\ Resolved("R")
  /\ res["I"].pkact = PKACT_DISP /\ res["R"].pkact = PKACT_INPUT
  /\ proc["I"].pair_alg = ALG_PASSKEY /\ proc["R"].pair_alg = ALG_PASSKEY
  /\ F_AUTHENTICATED \in proc["I"].flags
  /\ F_AUTHENTICATED \in proc["R"].flags

----------------------------------------------------------------------------
\* C16: the method of a procedure is fixed for its life: no step changes
\* pair_alg or the authenticated flag, the action ble_sm_sc_passkey_action
\* returns on the procedure is the same after every step, a passkey action
\* reported in a Result is that action, and running ble_sm_sc_passkey_action
\* again on the procedure as any step leaves it changes no field of it.
C16_MethodFixed ==
  [][\A d \in Roles :
       (proc[d].present /\ proc'[d].present)
         => /\ proc'[d].pair_alg = proc[d].pair_alg
            /\ (F_AUTHENTICATED \in proc'[d].flags)
                 <=> (F_AUTHENTICATED \in proc[d].flags)
            /\ ble_sm_sc_passkey_action(proc'[d]).action =
                 ble_sm_sc_passkey_action(proc[d]).action
            /\ ble_sm_sc_passkey_action(proc'[d]).proc = proc'[d]
            /\ res'[d].pkact \in
                 {PKACT_NONE, ble_sm_sc_passkey_action(proc[d]).action}
  ]_vars

\* a PasskeyEntry pairing has run to its end through all the steps that run
\* ble_sm_sc_passkey_action again
C16_Witness ==
  /\ proc["I"].state = STATE_ENC_START
  /\ proc["R"].state = STATE_LTK_START
  /\ proc["I"].pair_alg = ALG_PASSKEY /\ proc["R"].pair_alg = ALG_PASSKEY
  /\ proc["I"].passkey_bits_exchanged = BLE_SM_SC_PASSKEY_BITS
  /\ F_AUTHENTICATED \in proc["I"].flags
  /\ F_AUTHENTICATED \in proc["R"].flags

----------------------------------------------------------------------------
(* The process-wide key pair and the host mutex (SpecHost) *)

\* C17: The key pair is generated at most once and never regenerated: once
\* ble_sm_sc_ensure_keys_generated has succeeded (ble_sm_sc_keys_generated is
\* set), no later step on any connection changes the pair or calls the
\* generator, every later call returns success with the pair as it is, and
\* every PublicKey message the host sends on any connection, in any procedure,
\* carries that one public key.
C17_KeyPairGeneratedOnce ==
  [][ /\ sc.generated =>
           /\ sc' = sc
           /\ \A d \in Roles, f \in {"none", "keygen"} :
                ble_sm_sc_ensure_keys_generated(sc, d, f) =
                  [rc |-> OK, keys |-> sc]
      /\ ks'.sent \subseteq {sc'.pub}
      /\ ks'.sent # {} => sc'.generated ]_vars

\* the procedures of both connections have sent the public key and received
\* the peer's, the second of them after the pair had been generated
C17_Witness ==
  /\ sc.generated
  /\ sc.ngen = 1
  /\ ks.sent = {sc.pub}
  /\ \A c \in Conns :
       /\ store[c].present
       /\ store[c].state = STATE_CONFIRM
       /\ store[c].dhkey # << >>

InLockedSection(t) ==
  task[t].at \in {"pk_body", "pk_unlock", "dh_body", "dh_unlock",
                  "io_body", "pr_body"}

\* C19: ble_sm_sc_public_key_rx and ble_sm_sc_dhkey_check_rx hold the host
\* mutex from before ble_sm_proc_find until after the last write to the
\* procedure, a task that has left the step on any path no longer holds the
\* mutex, and at most one task is between ble_hs_lock and ble_hs_unlock.
C19_MutexAroundLookupAndMutate ==
  /\ \A t \in Tasks : InLockedSection(t) <=> mutex = t
  /\ Cardinality({t \in Tasks : InLockedSection(t)}) <= 1

\* the host task is about to release the mutex after a DHKey check that did
\* not match, while the application task waits for the mutex
C19_Witness ==
  /\ task["host"].at = "dh_unlock"
  /\ task["host"].res.app_status = US_ERR_DHKEY
  /\ mutex = "host"
  /\ task["app"].at \in {"io_lock", "pr_lock"}

----------------------------------------------------------------------------
(* DHKey computation failure *)

\* device d takes the step ble_sm_sc_public_key_rx on its procedure, and the
\* key it receives is one ble_sm_alg_gen_dhkey refuses
PublicKeyRxBadKey(d) ==
  /\ pc[d] = "idle" /\ pc'[d] = "settle" /\ hist'[d].op = "public_key_rx"
  /\ ble_sm_proc_find(proc[d], STATE_PUBLIC_KEY)
  /\ Head(chan[d]).value \notin ValidKeys

\* C20: when ble_sm_alg_gen_dhkey fails on the received public key (the
\* message was pulled up and the key pair exists), ble_sm_sc_public_key_rx
\* reports the DHKey failure: app_status is BLE_HS_SM_US_ERR(BLE_SM_ERR_DHKEY),
\* sm_err is BLE_SM_ERR_DHKEY, enc_cb is set and execute is clear; the
\* procedure stays in PUBLIC_KEY with no DHKey; and nothing is tried again:
\* processing the Result removes the procedure and sends Pairing Failed with
\* reason DHKEY, and a removed procedure never comes back.
C20_DhkeyFailureAborts ==
  [][\A d \in Roles :
       /\ ( PublicKeyRxBadKey(d) /\ res'[d].app_status # RC_FAIL )
            => /\ res'[d].app_status = US_ERR_DHKEY
               /\ res'[d].sm_err = BLE_SM_ERR_DHKEY
               /\ res'[d].enc_cb /\ ~res'[d].execute
               /\ proc'[d].state = STATE_PUBLIC_KEY
               /\ proc'[d].dhkey = proc[d].dhkey
               /\ proc'[d].dhkey = << >>
       /\ ( /\ pc[d] = "settle" /\ pc'[d] # "settle"
            /\ hist[d].op = "public_key_rx"
            /\ res[d].app_status = US_ERR_DHKEY )
            => /\ ~proc'[d].present /\ pc'[d] = "idle"
               /\ chan'[Peer(d)] =
                    chan[Peer(d)] \o << Msg("PairingFailed", BLE_SM_ERR_DHKEY) >>
       /\ ~proc[d].present => ~proc'[d].present
  ]_vars

\* the responder has refused an altered public key
C20_Witness ==
  /\ After("R", "public_key_rx")
  /\ hist["R"].rx_corrupt
  /\ res["R"].app_status = US_ERR_DHKEY
  /\ proc["R"].state = STATE_PUBLIC_KEY
  /\ proc["R"].pub_key_peer = 0
  /\ ~res["R"].execute

----------------------------------------------------------------------------
(* Reason codes of the integrity failures *)

\* the step just taken by d ended in one of the three integrity failures:
\* the confirm value did not match (ble_sm_sc_random_rx), the DHKey check
\* value did not match (ble_sm_dhkey_check_process) or the peer's key was
\* refused (ble_sm_sc_public_key_rx)
IntegrityFailure(d) ==
  /\ pc[d] = "settle"
  /\ \/ /\ hist[d].op = "random_rx"
        /\ res[d].app_status = US_ERR_CONFIRM_MISMATCH
     \/ /\ hist[d].op \in {"dhkey_check_rx", "public_key_rx"}
        /\ res[d].app_status = US_ERR_DHKEY

\* C21: after each of the three integrity failures the Result carries a
\* reason code for the peer that names the failure, never the generic
\* BLE_SM_ERR_UNSPECIFIED, together with the matching application status.
C21_IntegrityFailureNamesItself ==
  \A d \in Roles :
    IntegrityFailure(d)
      => /\ res[d].sm_err \notin {SM_ERR_NONE, BLE_SM_ERR_UNSPECIFIED}
         /\ res[d].enc_cb

----------------------------------------------------------------------------
(* Messages that find no procedure *)

\* device d has just taken the rx step `op` and the lookup found no procedure
\* in the state the message belongs to
StrayRx(d, op) ==
  /\ pc[d] = "idle" /\ pc'[d] = "settle" /\ hist'[d].op = op
  /\ res'[d].app_status = BLE_HS_ENOENT

\* C22: a PublicKey or a DHKeyCheck message that finds no procedure in the
\* expected state is dropped silently, the two message types alike: no
\* procedure is modified, enc_cb is clear and sm_err is zero, so that no
\* Pairing Failed goes to the peer.
C22_StrayMessageDroppedSilently ==
  [][\A d \in Roles :
       ( StrayRx(d, "public_key_rx") \/ StrayRx(d, "dhkey_check_rx") )
         => /\ proc' = proc
            /\ ~res'[d].enc_cb
            /\ res'[d].sm_err = SM_ERR_NONE
  ]_vars

----------------------------------------------------------------------------
(* Failures of the random source *)

\* C23: every failure of the random source during a step aborts the
\* procedure: whether it is the Ri of ble_sm_sc_gen_ri or the next round's
\* nonce of ble_sm_sc_random_advance (from ble_sm_sc_random_go on the
\* responder, from ble_sm_sc_random_rx on the initiator), the step's Result
\* has a non-zero status with enc_cb set, and the procedure is gone once the
\* Result has been processed.
C23_RngFailureAborts ==
  [][\A d \in Roles :
       /\ ( pc[d] # "settle" /\ pc'[d] = "settle" /\ hist'[d].rng_failed )
            => /\ res'[d].app_status # OK
               /\ res'[d].enc_cb
               /\ ~res'[d].execute
       /\ ( pc[d] = "settle" /\ pc'[d] # "settle" /\ hist[d].rng_failed )
            => ~proc'[d].present
  ]_vars

----------------------------------------------------------------------------
(* Fresh nonce in every passkey round *)

\* device d, in a passkey pairing, has just gone back from Random to Confirm
\* for the next round and the step has not aborted the procedure
EntersNextRound(d) ==
  /\ pc[d] # "settle" /\ pc'[d] = "settle"
  /\ proc[d].present /\ proc[d].pair_alg = ALG_PASSKEY
  /\ proc[d].state = STATE_RANDOM /\ proc'[d].state = STATE_CONFIRM
  /\ res'[d].app_status = OK

\* C24: in PasskeyEntry, whenever a procedure of either role enters Confirm
\* for a round after the first, the random source has given it a new local
\* nonce in that step, so that the nonce it sends in the round is not the one
\* of the round before.
C24_NonceRegeneratedEachRound ==
  [][\A d \in Roles : EntersNextRound(d) => ~hist'[d].rng_failed]_vars

----------------------------------------------------------------------------
(* Procedures of different connections *)

\* the connection the step of task t works on, in a step that t takes
StepConn(t) == IF task[t].at = "idle" THEN task'[t].conn ELSE task[t].conn

----------------------------------------------------------------------------
(* Failures are reported *)

\* device d takes a step on its procedure in which a collaborator fails or
\* one of the three checks does not match
StepGoesWrong(d) ==
  /\ pc[d] # "settle" /\ pc'[d] = "settle"
  /\ proc[d].present
  /\ \/ hist'[d].failed
     \/ PublicKeyRxBadKey(d)
     \/ /\ DhkeyCheckRxStep(d)
        /\ Head(chan[d]).value # DhkeyCheckExpected(proc[d])
     \/ /\ RandomRxStep(d)
        /\ RandomRxVerifies(proc[d])
        /\ proc[d].confirm_peer #
             ble_sm_alg_f4(proc[d].pub_key_peer, keys[d].pub,
                           Head(chan[d]).value, proc[d].ri)

\* C26: there is no silent failure: every step on an existing procedure in
\* which a collaborator fails (key generation, f4, f5, f6, g2, the random
\* source, the address lookup, the transmission, the pull-up or parse of the
\* message) or a check does not match ends with a non-zero app_status and
\* enc_cb set.
C26_NoSilentFailure ==
  [][\A d \in Roles :
       StepGoesWrong(d) => (res'[d].app_status # OK /\ res'[d].enc_cb)
  ]_vars

----------------------------------------------------------------------------
(* Leaving the public key exchange *)

\* device d takes the step ble_sm_sc_public_key_rx on its procedure and the
\* step succeeds
PublicKeyRxOk(d) ==
  /\ pc[d] = "idle" /\ pc'[d] = "settle" /\ hist'[d].op = "public_key_rx"
  /\ ble_sm_proc_find(proc[d], STATE_PUBLIC_KEY)
  /\ res'[d].app_status = OK

\* the step in which the procedure of d goes from PUBLIC_KEY to CONFIRM
ToConfirm(d) ==
  /\ proc[d].present /\ proc[d].state = STATE_PUBLIC_KEY
  /\ proc'[d].present /\ proc'[d].state = STATE_CONFIRM

\* C27 as stated: the responder's state becomes Confirm immediately on
\* receiving the peer's public key, in the step that receives it; the
\* initiator's becomes Confirm only after it has both transmitted its own key
\* and received the peer's.
C27_ResponderConfirmOnReceive ==
  [][/\ PublicKeyRxOk("R") => proc'["R"].state = STATE_CONFIRM
     /\ ToConfirm("I") => ( /\ hist["I"].npublic_key_tx > 0
                            /\ proc'["I"].dhkey # << >> )
  ]_vars

\* C27 amended: either role leaves PUBLIC_KEY for CONFIRM only when it has
\* both transmitted its own public key and received the peer's, and the two
\* roles do it in different steps. The initiator, having transmitted in
\* ble_sm_sc_public_key_go, is moved to CONFIRM by ble_sm_sc_public_key_rx,
\* in the step that receives the key. The responder's ble_sm_sc_public_key_rx
\* leaves the state at PUBLIC_KEY and asks for execution; the state becomes
\* CONFIRM in the ble_sm_sc_public_key_go that follows, once the responder's
\* own key has been transmitted, and not at all if that transmission fails.
C27_ConfirmAfterSendAndReceive ==
  [][/\ ToConfirm("I")
          => /\ PublicKeyRxOk("I")
             /\ hist["I"].npublic_key_tx > 0
             /\ proc'["I"].pub_key_peer = Head(chan["I"]).value
             /\ proc'["I"].dhkey # << >>
     /\ PublicKeyRxOk("R")
          => /\ proc'["R"].state = STATE_PUBLIC_KEY
             /\ proc'["R"].dhkey # << >>
             /\ res'["R"].execute
     /\ ToConfirm("R")
          => /\ pc["R"] = "exec" /\ hist'["R"].op = "public_key_go"
             /\ hist'["R"].npublic_key_tx = hist["R"].npublic_key_tx + 1
             /\ proc["R"].dhkey # << >>
     /\ ( /\ pc["R"] = "exec" /\ pc'["R"] = "settle"
          /\ hist'["R"].op = "public_key_go"
          /\ res'["R"].app_status # OK )
          => proc'["R"].state = STATE_PUBLIC_KEY
  ]_vars

\* the responder has received the initiator's key and computed the DHKey, its
\* state is still PUBLIC_KEY and its own key is not yet sent
C27_Witness ==
  /\ After("R", "public_key_rx")
  /\ res["R"].app_status = OK /\ res["R"].execute
  /\ proc["R"].state = STATE_PUBLIC_KEY
  /\ proc["R"].dhkey # << >>
  /\ hist["R"].npublic_key_tx = 0
  /\ proc["I"].state = STATE_PUBLIC_KEY /\ hist["I"].npublic_key_tx = 1

----------------------------------------------------------------------------
(* The round value Ri *)

\* device d runs ble_sm_sc_confirm_go, the one caller of ble_sm_sc_gen_ri, and
\* the step gets past the generation of Ri
GenRiStep(d) ==
  /\ pc[d] = "exec" /\ pc'[d] = "settle" /\ hist'[d].op = "confirm_go"
  /\ ~hist'[d].rng_failed

\* the passkey held in tk, a little-endian number of four bytes
TkValue(tk) == tk[1] + 256 * tk[2] + 65536 * tk[3] + 16777216 * tk[4]

\* C28: ble_sm_sc_gen_ri gives Ri = 0 for JustWorks and NumericComparison and
\* leaves passkey_bits_exchanged as it is; for PasskeyEntry with
\* n = passkey_bits_exchanged, n < 20, it gives 0x80 + bit n of the passkey
\* held in tk, hence 0x80 or 0x81, and the counter becomes n + 1.
C28_RiValue ==
  [][\A d \in Roles :
       GenRiStep(d) =>
         LET n == proc[d].passkey_bits_exchanged
         IN /\ proc[d].pair_alg \in {ALG_JW, ALG_NUMCMP}
                 => /\ proc'[d].ri = 0
                    /\ proc'[d].passkey_bits_exchanged = n
            /\ proc[d].pair_alg = ALG_PASSKEY
                 => /\ n < BLE_SM_SC_PASSKEY_BITS
                    /\ proc'[d].ri = 128 + ((TkValue(proc[d].tk) \div (2 ^ n)) % 2)
                    /\ proc'[d].ri \in {128, 129}
                    /\ proc'[d].passkey_bits_exchanged = n + 1
  ]_vars

\* the initiator has taken bit 2 of a passkey whose bit 2 is set, and a
\* responder in NumericComparison would sit at Ri = 0 with no bit counted
C28_Witness ==
  /\ After("I", "confirm_go")
  /\ proc["I"].pair_alg = ALG_PASSKEY
  /\ proc["I"].passkey_bits_exchanged = 3
  /\ TkValue(proc["I"].tk) # 0
  /\ proc["I"].ri = 129

----------------------------------------------------------------------------
(* The numeric comparison value *)

\* both ends run NumericComparison and nothing has been altered on the link
HonestNumcmp ==
  /\ ~altered
  /\ \A d \in Roles : proc[d].present /\ proc[d].pair_alg = ALG_NUMCMP

\* device d has just computed its comparison value: the initiator in
\* ble_sm_sc_random_rx, the responder in ble_sm_sc_random_go
NumcmpComputed(d) ==
  /\ After(d, IF d = "I" THEN "random_rx" ELSE "random_go")
  /\ res[d].app_status = OK
  /\ res[d].pkact = PKACT_NUMCMP

\* C29: in NumericComparison with two honest peers the initiator and the
\* responder compute the same comparison value: g2 of the initiator's public
\* key, the responder's public key, the initiator's nonce and the responder's
\* nonce, in that order.
C29_SameComparisonValue ==
  HonestNumcmp =>
    /\ \A d \in Roles :
         NumcmpComputed(d)
           => res[d].numcmp =
                ble_sm_alg_g2(keys["I"].pub, keys["R"].pub,
                              ble_sm_our_pair_rand(proc["I"]),
                              ble_sm_our_pair_rand(proc["R"]))
    /\ ( res["I"].numcmp # << >> /\ res["R"].numcmp # << >> )
         => res["I"].numcmp = res["R"].numcmp

\* both ends hold their comparison value at the same time
C29_Witness ==
  /\ HonestNumcmp
  /\ NumcmpComputed("I")
  /\ res["R"].pkact = PKACT_NUMCMP /\ res["R"].numcmp # << >>
  /\ res["I"].numcmp = res["R"].numcmp
  /\ keys["I"].pub # keys["R"].pub
  /\ proc["I"].randm # proc["I"].rands

----------------------------------------------------------------------------
(* Just Works from end to end *)

\* both ends run JustWorks, nothing has been altered on the link and neither
\* procedure has been removed
HonestJustWorks ==
  /\ ~altered
  /\ \A d \in Roles :
       /\ proc[d].present /\ proc[d].pair_alg = ALG_JW
       /\ AUTHREQ_MITM \notin proc[d].pair_req.authreq
       /\ AUTHREQ_MITM \notin proc[d].pair_rsp.authreq
       /\ ~proc[d].pair_req.oob_data_flag /\ ~proc[d].pair_rsp.oob_data_flag

\* the initiator has accepted the responder's DHKey check
JustWorksDone ==
  /\ proc["I"].state = STATE_ENC_START
  /\ hist["I"].dhkey_ok

\* what each end has sent when the pairing is done
SentAtEnd(d, nconfirm) ==
  /\ hist[d].npublic_key_tx = 1
  /\ hist[d].nconfirm_tx = nconfirm
  /\ hist[d].nrandom_tx = 1
  /\ hist[d].ndhkey_tx = 1

\* C30 as stated: in a JustWorks pairing of two procedures that are fed each
\* other's messages, the messages are PublicKey, PublicKey, Random, Random,
\* DHKeyCheck, DHKeyCheck; both ends finish without abort and with the same
\* LTK, the initiator in EncryptionStart and the responder in the state that
\* follows its DHKey check.
C30_SixMessages ==
  (HonestJustWorks /\ JustWorksDone)
    => /\ SentAtEnd("I", 0) /\ SentAtEnd("R", 0)
       /\ proc["I"].ltk = proc["R"].ltk
       /\ proc["R"].state = STATE_LTK_START

\* C30 amended: the exchange has seven messages, the responder's
\* PairingConfirm coming between the public keys and the nonces, and the
\* initiator sends its nonce only when it holds that confirm value. With
\* that, as long as no collaborator fails neither end aborts, the two ends
\* derive the same LTK, and when the initiator has reached EncryptionStart
\* the responder is in LTK_START, each having sent one message of each kind
\* and the initiator no PairingConfirm.
C30_JustWorksEndToEnd ==
  HonestJustWorks =>
    /\ \A d \in Roles :
         /\ (pc[d] = "settle" /\ res[d].app_status # OK) => hist[d].failed
         /\ proc[d].ltk # << >>
              => /\ proc[d].our_keys = [ltk_valid |-> TRUE, ltk |-> proc[d].ltk]
                 /\ proc[d].ltk =
                      alg_f5_ltk(ble_sm_alg_gen_dhkey(keys[Peer(d)].pub,
                                                      keys[d].priv),
                                 ble_sm_our_pair_rand(proc["I"]),
                                 ble_sm_our_pair_rand(proc["R"]),
                                 AddrOf("I"), AddrOf("R"))
    /\ (proc["I"].ltk # << >> /\ proc["R"].ltk # << >>)
         => proc["I"].ltk = proc["R"].ltk
    /\ hist["I"].nconfirm_tx = 0
    /\ hist["I"].nrandom_tx > 0
         => /\ hist["R"].nconfirm_tx = 1
            /\ proc["I"].confirm_peer # << >>
    /\ JustWorksDone
         => /\ SentAtEnd("I", 0) /\ SentAtEnd("R", 1)
            /\ proc["R"].state = STATE_LTK_START
            /\ proc["I"].ltk = proc["R"].ltk
            /\ proc["R"].peer_keys = [ltk_valid |-> TRUE, ltk |-> proc["I"].ltk]

\* the pairing is done: the initiator has asked for encryption, the responder
\* waits for the link layer, and both hold the same LTK
C30_Witness ==
  /\ HonestJustWorks /\ JustWorksDone
  /\ After("I", "enc_start_go")
  /\ pc["R"] = "idle" /\ proc["R"].state = STATE_LTK_START
  /\ hist["R"].dhkey_ok
  /\ chan["I"] = << >> /\ chan["R"] = << >>
  /\ proc["I"].ltk # << >> /\ proc["I"].ltk = proc["R"].ltk

----------------------------------------------------------------------------
(* DHKey check round trip *)

\* the two ends hold the same MAC key, nonces, tk and pairing request and
\* response
SameCheckInputs ==
  /\ \A d \in Roles : proc[d].present /\ proc[d].mackey # << >>
  /\ proc["I"].mackey = proc["R"].mackey
  /\ proc["I"].randm = proc["R"].randm /\ proc["I"].rands = proc["R"].rands
  /\ proc["I"].tk = proc["R"].tk
  /\ proc["I"].pair_req = proc["R"].pair_req
  /\ proc["I"].pair_rsp = proc["R"].pair_rsp

\* C31: when two honest peers hold the same MAC key, nonces, tk, addresses
\* and pairing request and response, the DHKey check value either of them
\* transmits from ble_sm_sc_dhkey_check_go is the value the other expects in
\* ble_sm_dhkey_check_process, in both directions.
C31_DhkeyCheckRoundTrip ==
  SameCheckInputs =>
    \A d \in Roles :
      LET r == ble_sm_sc_dhkey_check_go(proc[d], "none")
      IN /\ r.out # << >>
         /\ r.out[1].value = DhkeyCheckExpected(proc[Peer(d)])
         /\ ( /\ After(Peer(d), "dhkey_check_rx") /\ ~hist[Peer(d)].rx_corrupt
              /\ ~hist[Peer(d)].failed
              /\ res[Peer(d)].app_status # BLE_HS_ENOENT )
              => (res[Peer(d)].app_status = OK /\ hist[Peer(d)].dhkey_ok)

\* a passkey pairing in which each end has accepted the other's check value
C31_Witness ==
  /\ SameCheckInputs /\ ~altered
  /\ After("I", "dhkey_check_rx") /\ res["I"].app_status = OK
  /\ hist["I"].dhkey_ok /\ hist["R"].dhkey_ok
  /\ proc["I"].pair_alg = ALG_PASSKEY /\ TkValue(proc["I"].tk) # 0
  /\ proc["I"].randm # proc["I"].rands


----------------------------------------------------------------------------
(* After an abort *)

\* device d, whose procedure an abort has removed, handles one more message
\* with the step op
AbortedRx(d, op) ==
  /\ ~proc[d].present /\ hist[d].notified
  /\ pc[d] = "idle" /\ pc'[d] = "settle" /\ hist'[d].op = op

\* C32: aborted is terminal.  Once an abort has removed the procedure of a
\* connection, every PublicKey or DHKeyCheck message that arrives on it
\* finds no procedure, returns not-found and changes no state: the Result
\* asks for nothing (no execution, no callback, no Pairing Failed), the
\* procedures and the traffic towards the peer stay as they are, and no
\* procedure comes back.  (A message that cannot be read, or a failure of
\* the key generation, is left aside.)
C32_AbortedIsTerminal ==
  [][\A d \in Roles :
       /\ ( /\ AbortedRx(d, "public_key_rx") \/ AbortedRx(d, "dhkey_check_rx")
            /\ ~hist'[d].failed )
            => /\ proc' = proc
               /\ res'[d].app_status = BLE_HS_ENOENT
               /\ ~res'[d].execute /\ ~res'[d].enc_cb
               /\ res'[d].sm_err = SM_ERR_NONE
       /\ ( ~proc[d].present /\ hist[d].notified /\ pc[d] = "settle"
            /\ hist[d].op \in {"public_key_rx", "dhkey_check_rx"}
            /\ ~hist[d].failed /\ pc'[d] # "settle" )
            => chan' = chan /\ proc' = proc
       /\ ( ~proc[d].present /\ hist[d].notified ) => ~proc'[d].present
  ]_vars


----------------------------------------------------------------------------
(* Confirm values between honest peers *)

\* nothing on the connection has been altered and both ends hold the same
\* passkey or out-of-band value
HonestPeers ==
  /\ ~altered
  /\ \A d \in Roles : proc[d].present
  /\ proc["I"].tk = proc["R"].tk

\* C33: between honest peers the confirm value a device transmits from
\* ble_sm_sc_confirm_go is the value the receiver recomputes in
\* ble_sm_sc_random_rx, whatever the method and the round: a step of
\* ble_sm_sc_random_rx that checks never ends in ConfirmMismatch.
C33_ConfirmRoundTrip ==
  [][\A d \in Roles :
       ( RandomRxStep(d) /\ HonestPeers /\ RandomRxVerifies(proc[d]) )
         => res'[d].app_status # US_ERR_CONFIRM_MISMATCH
  ]_vars

----------------------------------------------------------------------------
(* Order of the two DHKey checks *)

\* what a step may do about the responder's DHKey check
ResponderCheckOrder ==
  /\ ( hist'["R"].op = "random_go" /\ hist["R"].op # "random_go"
       /\ proc'["R"].present /\ proc'["R"].state = STATE_DHKEY_CHECK )
       => ~res'["R"].execute
  /\ ( pc["R"] = "exec" /\ hist'["R"].op = "dhkey_check_go"
       /\ pc'["R"] = "settle" )
       => /\ hist["R"].dhkey_ok
          /\ F_INITIATOR \notin proc["R"].flags
          /\ ble_sm_proc_can_advance(proc["R"])
  /\ hist'["R"].ndhkey_tx > 0 => hist'["R"].dhkey_ok

\* C34: the responder transmits its DHKey check only after it has received
\* the initiator's and found it equal to the expected value.  The step
\* ble_sm_sc_random_go that takes the responder to DHKEY_CHECK asks for no
\* execution; ble_sm_sc_dhkey_check_go runs for a responder only after
\* ble_sm_dhkey_check_process has accepted the initiator's value (the
\* execution being asked for by that step, or by the user's answer once
\* ADVANCE_ON_IO is set).
C34_ResponderCheckAfterInitiators == [][ResponderCheckOrder]_vars

\* a NumericComparison responder has sent its check after the initiator's
\* was accepted and the user confirmed the value
C34_Witness ==
  /\ hist["R"].ndhkey_tx = 1 /\ hist["R"].dhkey_ok
  /\ proc["R"].present /\ proc["R"].pair_alg = ALG_NUMCMP
  /\ F_ADVANCE_ON_IO \in proc["R"].flags /\ F_IO_INJECTED \in proc["R"].flags
  /\ proc["R"].state = STATE_LTK_START


----------------------------------------------------------------------------
(* What a failed step leaves behind *)

ScOps ==
  {"public_key_go", "public_key_rx", "confirm_go", "random_go", "random_rx",
   "dhkey_check_go", "dhkey_check_rx"}

\* device d runs one of the Secure Connections steps on its procedure
ScStep(d) ==
  /\ pc[d] \in {"exec", "idle"} /\ pc'[d] = "settle"
  /\ hist'[d].op \in ScOps
  /\ proc[d].present

\* C35: a step that reports an error leaves the procedure's state and
\* passkey_bits_exchanged exactly as they were before the step: for every
\* go and rx step, a Result with non-zero app_status implies that the two
\* fields are unchanged.
C35_FailedStepChangesNothing ==
  [][\A d \in Roles :
       ( ScStep(d) /\ res'[d].app_status # OK )
         => /\ proc'[d].state = proc[d].state
            /\ proc'[d].passkey_bits_exchanged = proc[d].passkey_bits_exchanged
  ]_vars


----------------------------------------------------------------------------
(* The execute flag of a Result *)

\* C36: the Result of a Secure Connections step never has execute set
\* together with a failure or a pending user interaction: execute comes with
\* app_status zero, enc_cb clear and no NumericComparison action for the
\* application to answer.
C36_ExecuteOnlyWhenClear ==
  \A d \in Roles :
    ( pc[d] = "settle" /\ hist[d].op \in ScOps /\ res[d].execute )
      => /\ res[d].app_status = OK
         /\ ~res[d].enc_cb
         /\ res[d].sm_err = SM_ERR_NONE
         /\ res[d].pkact # PKACT_NUMCMP

\* the responder's ble_sm_sc_random_rx of a NumericComparison pairing has
\* asked for execution, with nothing else in its Result
C36_Witness ==
  /\ pc["R"] = "settle" /\ hist["R"].op = "random_rx"
  /\ proc["R"].present /\ proc["R"].pair_alg = ALG_NUMCMP
  /\ res["R"].execute /\ res["R"].app_status = OK
  /\ res["R"].pkact = PKACT_NONE


----------------------------------------------------------------------------
(* The host's event loop *)

\* the events ble_hs_evq can hold
HsEvents ==
  { OsEvent(BLE_HOST_HCI_EVENT_CTLR_EVENT, b, "") : b \in Bufs }
    \cup { ble_hs_event_tx_notifications, mq_ev("rx"), mq_ev("tx") }

InEvq(ev) == \E k \in 1..Len(hs.evq) : hs.evq[k] = ev

\* what holds of the event loop as long as no read through a null pointer
\* has halted the system: at most BLE_HS_MAX_EVS_IN_A_ROW events per
\* invocation, the wake-up event posted whenever events are queued and the
\* handler is not running, every queued event and packet eventually handled
HandledUnlessHalted ==
  /\ [](hs.nrow <= BLE_HS_MAX_EVS_IN_A_ROW)
  /\ []((hs.at = "idle" /\ hs.evq # << >>) => hs.co_queued)
  /\ \A ev \in HsEvents : InEvq(ev) ~> (~InEvq(ev) \/ hs.crashed)
  /\ (hs.rx_q > 0) ~> (hs.rx_q = 0 \/ hs.crashed)
  /\ (hs.tx_q > 0) ~> (hs.tx_q = 0 \/ hs.crashed)

C39_PoolExhaustedFreesBuffer ==
  [][/\ \A b \in Bufs :
          HciEvtRx(b) =>
            IF hs.pool = 0
              THEN hs' = hs
              ELSE hs' = [hs EXCEPT
                            !.pool = @ - 1, !.buf[b] = "queued",
                            !.co_queued = TRUE,
                            !.evq = Append(@,
                               OsEvent(BLE_HOST_HCI_EVENT_CTLR_EVENT, b, ""))]
     /\ \A b \in Bufs :
          ( hs.buf[b] = "queued" /\ hs'.buf[b] = "free" )
            => /\ hs.at = "loop" /\ hs.evq # << >>
               /\ Head(hs.evq) = OsEvent(BLE_HOST_HCI_EVENT_CTLR_EVENT, b, "")
               /\ hs'.evq = Tail(hs.evq)
  ]_vars


----------------------------------------------------------------------------
(* The heartbeat timer *)

\* C38: ble_hs_heartbeat_sched(t) never makes the heartbeat fire later.  With
\* t = BLE_HS_FOREVER nothing changes; otherwise the timer is re-armed to
\* expire t ticks from now exactly when it is not queued or now + t is
\* sooner than its current expiration time, and is left unchanged otherwise.
C38_HeartbeatNeverLater ==
  hs.started =>
    \A t \in SchedVals :
      LET h == ble_hs_heartbeat_sched(hs, t)
          rearm == /\ t # BLE_HS_FOREVER
                   /\ (~hs.hb_queued \/ hs.now + t < hs.c_ticks)
      IN /\ rearm => h = [hs EXCEPT !.hb_queued = TRUE, !.hb_pending = FALSE,
                                    !.c_ticks = hs.now + t]
         /\ ~rearm => h = hs
         /\ hs.hb_queued => h.c_ticks <= hs.c_ticks

============================================================================
